---------------------------- MODULE Spec2Model ----------------------------
(***************************************************************************)
(* Segmentation-and-measurement pipeline of omero-screen:                  *)
(*   src/src/omero_screen/image_analysis.py   (Image, ImageProperties)     *)
(*   src/src/omero_screen/general_functions.py (filter_segmentation)       *)
(*                                                                         *)
(* Arrays are records [shape, dtype, val]: val maps every index tuple of   *)
(* the shape (0-based, as in numpy) to the integer stored there.           *)
(***************************************************************************)
EXTENDS Integers, Sequences, FiniteSets, TLC

(***************************************************************************)
(* Bounds of the model.                                                    *)
(***************************************************************************)
\* image height (rows, y) and width (columns, x) of one timepoint
ImgH == 15
ImgW == 17
\* largest number of timepoints of an image stack
MaxT == 2
\* number of runs of Image._segmentation one caller performs
MaxRuns == 2
\* height and width of the frames ImageProperties measures
PropH == 3
PropW == 4

(***************************************************************************)
(* Program constants.                                                      *)
(***************************************************************************)
\* clear_border(mask, buffer_size=5)
BufferSize == 5
\* sizes > 10
MinSize == 10

(***************************************************************************)
(* numpy arrays                                                            *)
(***************************************************************************)
Range(f) == {f[x] : x \in DOMAIN f}

Max(S) == CHOOSE m \in S : \A x \in S : x <= m

\* all index tuples of an array of the given shape (1 to 5 dimensions)
Indices(shape) ==
    CASE Len(shape) = 1 -> {<<a>> : a \in 0..(shape[1] - 1)}
      [] Len(shape) = 2 -> (0..(shape[1] - 1)) \X (0..(shape[2] - 1))
      [] Len(shape) = 3 -> (0..(shape[1] - 1)) \X (0..(shape[2] - 1))
                               \X (0..(shape[3] - 1))
      [] Len(shape) = 4 -> (0..(shape[1] - 1)) \X (0..(shape[2] - 1))
                               \X (0..(shape[3] - 1)) \X (0..(shape[4] - 1))
      [] Len(shape) = 5 -> (0..(shape[1] - 1)) \X (0..(shape[2] - 1))
                               \X (0..(shape[3] - 1)) \X (0..(shape[4] - 1))
                               \X (0..(shape[5] - 1))

\* number of values an unsigned dtype can hold; uint32 values of the model
\* stay below 2^31, so a uint32 never wraps here
Modulus(dtype) ==
    CASE dtype = "uint8" -> 256
      [] dtype = "uint16" -> 65536
      [] dtype = "uint32" -> 2147483647

\* np.zeros(shape, dtype) / np.zeros_like(a, dtype)
zeros(shape, dtype) ==
    [shape |-> shape, dtype |-> dtype, val |-> [i \in Indices(shape) |-> 0]]

\* a.astype(dtype): every element is reduced modulo the width of dtype
astype(a, dtype) ==
    [shape |-> a.shape, dtype |-> dtype,
     val |-> [i \in DOMAIN a.val |-> a.val[i] % Modulus(dtype)]]

\* np.stack([a, b]): a new leading axis of length 2
stack(a, b) ==
    [shape |-> <<2>> \o a.shape, dtype |-> a.dtype,
     val |-> [i \in Indices(<<2>> \o a.shape) |->
                 IF i[1] = 0 THEN a.val[Tail(i)] ELSE b.val[Tail(i)]]]

\* a[0] whatever k is
slice_first(a, k) ==
    [shape |-> Tail(a.shape), dtype |-> a.dtype,
     val |-> [i \in Indices(Tail(a.shape)) |-> a.val[<<0>> \o i]]]

\* a[k]: the k-th slice along the leading axis
slice(a, k) ==
    [shape |-> Tail(a.shape), dtype |-> a.dtype,
     val |-> [i \in Indices(Tail(a.shape)) |-> a.val[<<k>> \o i]]]

\* an exception raised instead of a value
Raise(name) == [exc |-> name]
IsExc(x) == "exc" \in DOMAIN x

\* a[t] = frame: the frame must have the shape of one slice of a, its
\* values are cast to the dtype of a; any other shape cannot be broadcast
setitem(a, t, frame) ==
    IF IsExc(frame) THEN frame
    ELSE IF frame.shape # Tail(a.shape) THEN Raise("ValueError")
    ELSE [a EXCEPT !.val = [i \in DOMAIN a.val |->
                 IF i[1] = t THEN frame.val[Tail(i)] % Modulus(a.dtype)
                 ELSE a.val[i]]]

(***************************************************************************)
(* Image._compact_mask                                                     *)
(***************************************************************************)
compact_mask_strict(mask) ==
    LET m == Max(Range(mask.val))
    IN  IF m <= 2^8 THEN astype(mask, "uint8")
        ELSE IF m <= 2^16 THEN astype(mask, "uint16")
        ELSE mask

compact_mask(mask) ==
    LET m == Max(Range(mask.val))
    IN  IF m < 2^8 THEN astype(mask, "uint8")
        ELSE IF m < 2^16 THEN astype(mask, "uint16")
        ELSE mask

(***************************************************************************)
(* Image._get_cyto                                                         *)
(***************************************************************************)
\* a Python bool used as a number
Num(b) == IF b THEN 1 ELSE 0

get_cyto_inverted(n_mask, c_mask) ==
    LET overlap == [i \in DOMAIN c_mask.val |->
                      Num(c_mask.val[i] # 0) * Num(n_mask.val[i] # 0)]
        cyto_mask_binary == [i \in DOMAIN c_mask.val |->
                      Num(c_mask.val[i] # 0) * Num(overlap[i] # 0)]
    IN  [c_mask EXCEPT !.val = [i \in DOMAIN c_mask.val |->
                      c_mask.val[i] * cyto_mask_binary[i]]]

get_cyto_added(n_mask, c_mask) ==
    LET overlap == [i \in DOMAIN c_mask.val |->
                      Num(c_mask.val[i] # 0) * Num(n_mask.val[i] # 0)]
        cyto_mask_binary == [i \in DOMAIN c_mask.val |->
                      Num(c_mask.val[i] # 0) * Num(overlap[i] = 0)]
    IN  [c_mask EXCEPT !.val = [i \in DOMAIN c_mask.val |->
                      c_mask.val[i] + cyto_mask_binary[i]]]

get_cyto_of_nucleus(n_mask, c_mask) ==
    LET overlap == [i \in DOMAIN c_mask.val |->
                      Num(c_mask.val[i] # 0) * Num(n_mask.val[i] # 0)]
        cyto_mask_binary == [i \in DOMAIN c_mask.val |->
                      Num(c_mask.val[i] # 0) * Num(overlap[i] = 0)]
    IN  [c_mask EXCEPT !.val = [i \in DOMAIN c_mask.val |->
                      n_mask.val[i] * cyto_mask_binary[i]]]

get_cyto(n_mask, c_mask) ==
    LET overlap == [i \in DOMAIN c_mask.val |->
                      Num(c_mask.val[i] # 0) * Num(n_mask.val[i] # 0)]
        cyto_mask_binary == [i \in DOMAIN c_mask.val |->
                      Num(c_mask.val[i] # 0) * Num(overlap[i] = 0)]
    IN  [c_mask EXCEPT !.val = [i \in DOMAIN c_mask.val |->
                      c_mask.val[i] * cyto_mask_binary[i]]]

(***************************************************************************)
(* skimage.segmentation.clear_border and filter_segmentation               *)
(***************************************************************************)
\* indices holding an object (a non-zero label)
Foreground(a) == {i \in DOMAIN a.val : a.val[i] # 0}

\* two different indices next to each other, diagonals included
Neighbours(i, j) ==
    i # j /\ \A d \in DOMAIN i : i[d] - j[d] \in {-1, 0, 1}

\* the connected region of equal values that contains the set S
RECURSIVE Grow(_, _, _)
Grow(a, fg, S) ==
    LET more == {j \in fg \ S :
                    \E i \in S : Neighbours(i, j) /\ a.val[i] = a.val[j]}
    IN  IF more = {} THEN S ELSE Grow(a, fg, S \cup more)

\* the connected regions of the indices in fg
RECURSIVE Regions(_, _)
Regions(a, fg) ==
    IF fg = {} THEN {}
    ELSE LET r == Grow(a, fg, {CHOOSE i \in fg : TRUE})
         IN  {r} \cup Regions(a, fg \ r)

\* skimage.measure.label(a, background=0): every index is given the
\* connected region of equal value it lies in (the background gets {});
\* a region stands for the number label() gives it
label(a) ==
    LET fg == Foreground(a)
        regions == Regions(a, fg)
    IN  [i \in DOMAIN a.val |->
            IF i \in fg THEN CHOOSE r \in regions : i \in r ELSE {}]

\* the indices within ext of either end of any axis
Borders(shape, ext) ==
    {i \in Indices(shape) :
        \E d \in DOMAIN shape : i[d] < ext \/ i[d] >= shape[d] - ext}

clear_border(labels, buffer_size) ==
    IF \E d \in DOMAIN labels.shape : buffer_size >= labels.shape[d]
    THEN Raise("ValueError")
    ELSE LET borders == Borders(labels.shape, buffer_size + 1)
             lab == label(labels)
             borders_indices == {lab[i] : i \in borders}
         IN  [labels EXCEPT !.val = [i \in DOMAIN labels.val |->
                 IF lab[i] \in borders_indices THEN 0 ELSE labels.val[i]]]

filter_segmentation(mask) ==
    LET cleared == clear_border(mask, BufferSize)
    IN  IF IsExc(cleared) THEN cleared
        ELSE LET fg == Foreground(cleared)
                 \* np.bincount(cleared.ravel())[v]
                 sizes(v) == Cardinality({i \in fg : cleared.val[i] = v})
                 mask_sizes(v) == IF v = 0 THEN FALSE ELSE sizes(v) > MinSize
                 kept == {v \in {cleared.val[i] : i \in fg} : mask_sizes(v)}
                 cells_cleaned == [i \in DOMAIN mask.val |->
                                      cleared.val[i] \in kept]
             IN  [mask EXCEPT !.val = [i \in DOMAIN mask.val |->
                                      Num(cells_cleaned[i]) * mask.val[i]]]

(***************************************************************************)
(* pandas tables: a table has its column names in order, a dtype per       *)
(* column and its rows in order; a row maps every column to a cell, and a  *)
(* cell is a value or NA.                                                  *)
(***************************************************************************)
NA == [na |-> TRUE, v |-> 0]
Cell(x) == [na |-> FALSE, v |-> x]

SeqRange(s) == {s[k] : k \in 1..Len(s)}

\* a local variable: F of the value of e, the value computed once
With(e, F(_)) == CHOOSE r \in {F(v) : v \in {e}} : TRUE

RECURSIVE Flatten(_)
Flatten(ss) == IF ss = <<>> THEN <<>> ELSE Head(ss) \o Flatten(Tail(ss))

\* the values of the key columns of a row
KeyOf(row, on) == [k \in 1..Len(on) |-> row[on[k]].v]

LexLess(a, b) ==
    \E k \in 1..Len(a) : a[k] < b[k] /\ \A j \in 1..(k - 1) : a[j] = b[j]

RECURSIVE SortKeys(_)
SortKeys(S) ==
    IF S = {} THEN <<>>
    ELSE LET m == CHOOSE x \in S : \A y \in S : y = x \/ LexLess(x, y)
         IN  <<m>> \o SortKeys(S \ {m})

pandas_is_integer_dtype(dtype) == dtype \in {"int64", "uint8", "uint16", "uint32"}

\* pd.merge(df1, df2, how="outer", on=on) for tables that share only the
\* key columns: keys in sorted order, every pairing of the rows of one
\* key, NA where one side has no row for the key; a column that received an
\* NA no longer has an integer dtype
pd_merge_outer(df1, df2, on) ==
    LET keycols == SeqRange(on)
        right == SelectSeq(df2.columns, LAMBDA c : c \notin keycols)
        columns == df1.columns \o right
        cols == SeqRange(columns)
        keys == SortKeys({KeyOf(df1.rows[k], on) : k \in 1..Len(df1.rows)}
                   \cup {KeyOf(df2.rows[k], on) : k \in 1..Len(df2.rows)})
        joined(l, r) == [c \in cols |-> IF c \in DOMAIN l THEN l[c] ELSE r[c]]
        padded(x) == [c \in cols |-> IF c \in DOMAIN x THEN x[c] ELSE NA]
        rowsOf(key) ==
            LET ls == SelectSeq(df1.rows, LAMBDA x : KeyOf(x, on) = key)
                rs == SelectSeq(df2.rows, LAMBDA x : KeyOf(x, on) = key)
            IN  IF rs = <<>> THEN [a \in 1..Len(ls) |-> padded(ls[a])]
                ELSE IF ls = <<>> THEN [b \in 1..Len(rs) |-> padded(rs[b])]
                ELSE Flatten([a \in 1..Len(ls) |->
                        [b \in 1..Len(rs) |-> joined(ls[a], rs[b])]])
        source(c) == IF c \in SeqRange(df1.columns) THEN df1.dtype[c]
                     ELSE df2.dtype[c]
    IN  With(Flatten([k \in 1..Len(keys) |-> rowsOf(keys[k])]),
             LAMBDA rows :
                 [columns |-> columns,
                  dtype |-> [c \in cols |->
                               IF \E k \in 1..Len(rows) : rows[k][c].na
                               THEN "float64" ELSE source(c)],
                  rows |-> rows])

\* df.dropna(axis=0, how="all")
dropna_all(df) ==
    [df EXCEPT !.rows = SelectSeq(df.rows,
        LAMBDA x : \E c \in DOMAIN x : ~x[c].na)]

\* df.dropna(axis=0, how="any")
dropna(df) ==
    [df EXCEPT !.rows = SelectSeq(df.rows,
        LAMBDA x : \A c \in DOMAIN x : ~x[c].na)]

\* for c in src.columns: restore the integer dtype the merge took away
RECURSIVE restore_int(_, _, _)
restore_int(df, src, k) ==
    IF k > Len(src.columns) THEN df
    ELSE LET c == src.columns[k]
         IN  With(IF pandas_is_integer_dtype(src.dtype[c])
                     /\ ~pandas_is_integer_dtype(df.dtype[c])
                  THEN [df EXCEPT !.dtype[c] = src.dtype[c]]
                  ELSE df,
                  LAMBDA restored : restore_int(restored, src, k + 1))

\* _outer_merge with the second restoring loop (for c in df2.columns) left out
outer_merge_left_restore(df1, df2, on) ==
    With(dropna(pd_merge_outer(df1, df2, on)),
         LAMBDA df : restore_int(df, df1, 1))

\* ImageProperties._outer_merge; on is a list of column names
outer_merge(df1, df2, on) ==
    With(dropna(pd_merge_outer(df1, df2, on)),
         LAMBDA merged : With(restore_int(merged, df1, 1),
                              LAMBDA df : restore_int(df, df2, 1)))

(***************************************************************************)
(* Column names of the measurement tables. A name is the sequence of its   *)
(* words, the parts between underscores: "intensity_mean" is               *)
(* <<"intensity", "mean">>, and f"{a}_{b}" is a \o b.                      *)
(***************************************************************************)
Label == <<"label">>
Area == <<"area">>
IntensityMean == <<"intensity", "mean">>
IntensityMax == <<"intensity", "max">>
Timepoint == <<"timepoint">>
CytoID == <<"Cyto", "ID">>

\* a float that is the quotient of two integers
Quot(num, den) == <<num, den>>
\* float * float, the second one holding an integer
Times(q, n) == <<q[1] * n, q[2]>>

RECURSIVE SumOver(_, _)
SumOver(S, a) ==
    IF S = {} THEN 0
    ELSE LET i == CHOOSE x \in S : TRUE
         IN  a.val[i] + SumOver(S \ {i}, a)

\* np.squeeze(a): every axis of length 1 is removed
squeeze(a) ==
    LET keep == SelectSeq([d \in 1..Len(a.shape) |-> d],
                          LAMBDA d : a.shape[d] # 1)
        shape == [k \in 1..Len(keep) |-> a.shape[keep[k]]]
        full(i) == [d \in 1..Len(a.shape) |->
                       IF a.shape[d] = 1 THEN 0
                       ELSE i[CHOOSE k \in 1..Len(keep) : keep[k] = d]]
    IN  [shape |-> shape, dtype |-> a.dtype,
         val |-> [i \in Indices(shape) |-> a.val[full(i)]]]

\* regionprops_table that also measures the background, label 0
regionprops_table_with_background(label_image, intensity_image, properties) ==
    IF label_image.shape # intensity_image.shape THEN Raise("ValueError")
    ELSE LET labels == SortKeys({<<v>> : v \in Range(label_image.val)})
             pixels(l) == {i \in DOMAIN label_image.val :
                              label_image.val[i] = l}
             value(prop, l) ==
                 CASE prop = Label -> l
                   [] prop = Area -> Cardinality(pixels(l))
                   [] prop = IntensityMean ->
                          Quot(SumOver(pixels(l), intensity_image),
                               Cardinality(pixels(l)))
                   [] prop = IntensityMax ->
                          Max({intensity_image.val[i] : i \in pixels(l)})
         IN  [columns |-> properties,
              dtype |-> [c \in SeqRange(properties) |->
                            IF c = Label THEN "int64" ELSE "float64"],
              rows |-> [n \in 1..Len(labels) |->
                          [c \in SeqRange(properties) |->
                              Cell(value(c, labels[n][1]))]]]

\* skimage.measure.regionprops_table(label_image, intensity_image,
\* properties): one row per distinct positive label, in ascending order,
\* one column per property; the two images must have the same shape
regionprops_table(label_image, intensity_image, properties) ==
    IF label_image.shape # intensity_image.shape THEN Raise("ValueError")
    ELSE LET labels == SortKeys({<<v>> : v \in Range(label_image.val) \ {0}})
             pixels(l) == {i \in DOMAIN label_image.val :
                              label_image.val[i] = l}
             value(prop, l) ==
                 CASE prop = Label -> l
                   [] prop = Area -> Cardinality(pixels(l))
                   [] prop = IntensityMean ->
                          Quot(SumOver(pixels(l), intensity_image),
                               Cardinality(pixels(l)))
                   [] prop = IntensityMax ->
                          Max({intensity_image.val[i] : i \in pixels(l)})
         IN  [columns |-> properties,
              dtype |-> [c \in SeqRange(properties) |->
                            IF c = Label THEN "int64" ELSE "float64"],
              rows |-> [n \in 1..Len(labels) |->
                          [c \in SeqRange(properties) |->
                              Cell(value(c, labels[n][1]))]]]

\* ImageProperties._edit_properties: the renaming dictionary
edit_properties(channel, segment, featurelist) ==
    LET rest == {featurelist[k] : k \in 3..Len(featurelist)}
    IN  [feature \in rest \cup {Area} |->
            IF feature = Area THEN Area \o segment
            ELSE feature \o channel \o segment]

\* df.rename(columns=mapper)
rename(df, mapper) ==
    LET new(c) == IF c \in DOMAIN mapper THEN mapper[c] ELSE c
    IN  [columns |-> [k \in 1..Len(df.columns) |-> new(df.columns[k])],
         dtype |-> [d \in {new(c) : c \in SeqRange(df.columns)} |->
                      df.dtype[CHOOSE c \in SeqRange(df.columns) : new(c) = d]],
         rows |-> [n \in 1..Len(df.rows) |->
                     [d \in {new(c) : c \in SeqRange(df.columns)} |->
                         df.rows[n][CHOOSE c \in SeqRange(df.columns) :
                                       new(c) = d]]]]

\* the new column holds 0 whatever the value given
assign_int_zero(df, name, value) ==
    [columns |-> Append(df.columns, name),
     dtype |-> [c \in SeqRange(df.columns) \cup {name} |->
                  IF c = name THEN "int64" ELSE df.dtype[c]],
     rows |-> [n \in 1..Len(df.rows) |->
                 [c \in SeqRange(df.columns) \cup {name} |->
                     IF c = name THEN Cell(0) ELSE df.rows[n][c]]]]

\* df[name] = value for a new column holding one integer in every row
assign_int(df, name, value) ==
    [columns |-> Append(df.columns, name),
     dtype |-> [c \in SeqRange(df.columns) \cup {name} |->
                  IF c = name THEN "int64" ELSE df.dtype[c]],
     rows |-> [n \in 1..Len(df.rows) |->
                 [c \in SeqRange(df.columns) \cup {name} |->
                     IF c = name THEN Cell(value) ELSE df.rows[n][c]]]]

\* pd.concat(dfs, axis=0, ignore_index=True) of tables with equal columns
concat_rows(dfs) ==
    [columns |-> dfs[1].columns, dtype |-> dfs[1].dtype,
     rows |-> Flatten([k \in 1..Len(dfs) |-> dfs[k].rows])]

\* df.sort_values(by).reset_index(drop=True): rows with equal keys stay in
\* the order they had
sort_values(df, by) ==
    LET tagged == {KeyOf(df.rows[k], by) \o <<k>> : k \in 1..Len(df.rows)}
    IN  With(SortKeys(tagged),
             LAMBDA order :
                 [df EXCEPT !.rows = [n \in 1..Len(order) |->
                                         df.rows[order[n][Len(by) + 1]]]])

(***************************************************************************)
(* Label masks used as inputs: objects painted on an ImgH x ImgW frame.    *)
(***************************************************************************)
\* width of the strip clear_border examines along every edge
Ext == BufferSize + 1

Rect(r0, r1, c0, c1) == (r0..r1) \X (c0..c1)

\* regions clear of the border strip
Inner12 == Rect(Ext, Ext + 2, Ext, Ext + 3)
Inner15 == Rect(Ext, Ext + 2, Ext, Ext + 4)
Inner8 == Rect(Ext, Ext + 1, Ext, Ext + 3)
Inner3 == Rect(Ext, Ext + 2, Ext + 4, Ext + 4)
\* regions with pixels in the border strip
Margin16 == Rect(Ext - 1, Ext + 2, Ext, Ext + 3)
Corner8 == Rect(0, 1, 0, 3)
Corner12 == Rect(0, 2, 0, 3)
FarEdge12 == Rect(ImgH - 3, ImgH - 1, Ext, Ext + 3)

PaintRegions ==
    {{}, Inner12, Inner15, Inner8, Inner3, Margin16, Corner8, Corner12,
     FarEdge12}

\* a frame with region r1 labelled l1, then region r2 labelled l2 on top
Frame(l1, r1, l2, r2, dtype) ==
    [shape |-> <<ImgH, ImgW>>, dtype |-> dtype,
     val |-> [i \in Indices(<<ImgH, ImgW>>) |->
                 IF i \in r2 THEN l2 ELSE IF i \in r1 THEN l1 ELSE 0]]

\* a stack of T copies of a frame
Stack(T, frame) ==
    [shape |-> <<T>> \o frame.shape, dtype |-> frame.dtype,
     val |-> [i \in Indices(<<T>> \o frame.shape) |-> frame.val[Tail(i)]]]

None == [shape |-> <<>>, dtype |-> "None", val |-> <<>>]

(***************************************************************************)
(* ImageProperties. An image object has img_dict (the corrected stack of   *)
(* every channel, (t, y, x)), channels (the channel names in the order of  *)
(* the metadata), n_mask, c_mask and cyto_mask.                            *)
(***************************************************************************)
DAPI == <<"DAPI">>
Tub == <<"Tub">>
EdU == <<"EdU">>
Nucleus == <<"nucleus">>
CellSeg == <<"cell">>
Cyto == <<"cyto">>

\* a.astype(np.int64) of an unsigned array: every value fits
as_int64(a) == [a EXCEPT !.dtype = "int64"]

RECURSIVE Size(_)
Size(shape) == IF shape = <<>> THEN 1 ELSE Head(shape) * Size(Tail(shape))

\* the index of the k-th element (k from 0) of an array in flatten order:
\* the last axis runs fastest
Unravel(shape, k) ==
    [d \in 1..Len(shape) |->
        (k \div Size(SubSeq(shape, d + 1, Len(shape)))) % shape[d]]

\* a.flatten()
flatten(a) == [k \in 1..Size(a.shape) |-> a.val[Unravel(a.shape, k - 1)]]

\* pd.DataFrame({"label": values})
label_frame(values) ==
    [columns |-> <<Label>>, dtype |-> [c \in {Label} |-> "int64"],
     rows |-> [n \in 1..Len(values) |-> [c \in {Label} |-> Cell(values[n])]]]

\* ImageProperties._get_properties
get_properties(image, segmentation_mask, channel, segment, featurelist) ==
    LET timepoints == image.img_dict[channel].shape[1]
        label_ == as_int64(squeeze(segmentation_mask))
        feature_dict == edit_properties(channel, segment, featurelist)
        one(lab, intensity, t) ==
            With(regionprops_table(lab, intensity, featurelist),
                 LAMBDA props :
                     IF IsExc(props) THEN props
                     ELSE With(rename(props, feature_dict),
                               LAMBDA renamed :
                                   assign_int(renamed, Timepoint, t)))
    IN  IF timepoints > 1
        THEN IF Len(label_.shape) < 3 THEN Raise("ValueError")
             ELSE With([k \in 1..timepoints |->
                          IF k > label_.shape[1] THEN Raise("IndexError")
                          ELSE one(slice(label_, k - 1),
                                   squeeze(slice(image.img_dict[channel],
                                                 k - 1)),
                                   k - 1)],
                    LAMBDA data_list :
                      LET failed == {k \in 1..timepoints :
                                        IsExc(data_list[k])}
                      IN  IF failed # {}
                          THEN data_list[CHOOSE k \in failed :
                                            \A j \in failed : k <= j]
                          ELSE IF Label \notin SeqRange(data_list[1].columns)
                          THEN Raise("KeyError")
                          ELSE With(concat_rows(data_list),
                                    LAMBDA data :
                                        sort_values(data,
                                                    <<Timepoint, Label>>)))
        ELSE With(one(label_, squeeze(image.img_dict[channel]), 0),
                  LAMBDA data :
                      IF IsExc(data) THEN data
                      ELSE IF Label \notin SeqRange(data.columns)
                      THEN Raise("KeyError")
                      ELSE sort_values(data, <<Label>>))

\* the dictionary {keys[i]: values[i] for i in range(len(keys))} as the list
\* of its items: a key stays where it was first inserted, a later value for
\* the same key replaces the earlier one
RECURSIVE dict_items(_, _, _)
dict_items(keys, values, items) ==
    IF keys = <<>> THEN items
    ELSE LET at == {k \in 1..Len(items) : items[k][1] = Head(keys)}
         IN  dict_items(Tail(keys), Tail(values),
                 IF at = {} THEN Append(items, <<Head(keys), Head(values)>>)
                 ELSE [items EXCEPT ![CHOOSE k \in at : TRUE] =
                          <<Head(keys), Head(values)>>])

\* pd.DataFrame(items, columns=["label", "Cyto_ID"]); without items the
\* columns have dtype object
overlay_frame(items) ==
    [columns |-> <<Label, CytoID>>,
     dtype |-> [c \in {Label, CytoID} |->
                  IF items = <<>> THEN "object" ELSE "int64"],
     rows |-> [n \in 1..Len(items) |->
                 [c \in {Label, CytoID} |->
                     IF c = Label THEN Cell(items[n][1])
                     ELSE Cell(items[n][2])]]]

\* the table of every distinct (nucleus label, cell label) pair
overlay_mask_all_pairs(image) ==
    IF image.c_mask = None
    THEN label_frame(flatten(image.n_mask))
    ELSE LET n == flatten(image.n_mask)
             c == flatten(image.c_mask)
             overlap == SelectSeq([k \in 1..Len(n) |-> k],
                 LAMBDA k : /\ c[k] # 0 /\ n[k] # 0
                            /\ \A j \in 1..(k - 1) :
                                  ~(n[j] = n[k] /\ c[j] = c[k]))
         IN  overlay_frame([k \in 1..Len(overlap) |->
                               <<n[overlap[k]], c[overlap[k]]>>])

\* the first cell label met for a nucleus label is kept
overlay_mask_first(image) ==
    IF image.c_mask = None
    THEN label_frame(flatten(image.n_mask))
    ELSE LET n == flatten(image.n_mask)
             c == flatten(image.c_mask)
             overlap == SelectSeq([k \in 1..Len(n) |-> k],
                                  LAMBDA k : c[k] # 0 /\ n[k] # 0)
             list_n_masks == [k \in 1..Len(overlap) |-> n[overlap[k]]]
             list_masks == [k \in 1..Len(overlap) |-> c[overlap[k]]]
             firsts == SelectSeq([k \in 1..Len(overlap) |-> k],
                 LAMBDA k : \A j \in 1..(k - 1) :
                                list_n_masks[j] # list_n_masks[k])
         IN  overlay_frame([k \in 1..Len(firsts) |->
                 <<list_n_masks[firsts[k]], list_masks[firsts[k]]>>])

\* ImageProperties._overlay_mask
overlay_mask(image) ==
    IF image.c_mask = None
    THEN label_frame(flatten(image.n_mask))
    ELSE LET n == flatten(image.n_mask)
             c == flatten(image.c_mask)
             overlap == SelectSeq([k \in 1..Len(n) |-> k],
                                  LAMBDA k : c[k] # 0 /\ n[k] # 0)
             list_n_masks == [k \in 1..Len(overlap) |-> n[overlap[k]]]
             list_masks == [k \in 1..Len(overlap) |-> c[overlap[k]]]
         IN  overlay_frame(dict_items(list_n_masks, list_masks, <<>>))

IntegratedIntDAPI == <<"integrated", "int", "DAPI">>

\* the new column holds intensity_mean_DAPI_nucleus + area_nucleus
integrated_int_DAPI_added(nucleus_data) ==
    LET mean == IntensityMean \o DAPI \o Nucleus
        area == Area \o Nucleus
        cols == SeqRange(nucleus_data.columns)
    IN  IF mean \notin cols \/ area \notin cols THEN Raise("KeyError")
        ELSE [columns |-> Append(nucleus_data.columns, IntegratedIntDAPI),
              dtype |-> [c \in cols \cup {IntegratedIntDAPI} |->
                           IF c = IntegratedIntDAPI THEN "float64"
                           ELSE nucleus_data.dtype[c]],
              rows |-> [n \in 1..Len(nucleus_data.rows) |->
                  [c \in cols \cup {IntegratedIntDAPI} |->
                      IF c = IntegratedIntDAPI
                      THEN LET q == nucleus_data.rows[n][mean].v
                               a == nucleus_data.rows[n][area].v
                           IN  Cell(Quot(q[1] + a * q[2], q[2]))
                      ELSE nucleus_data.rows[n][c]]]]

\* lines 468-472: nucleus_data["integrated_int_DAPI"] =
\* nucleus_data["intensity_mean_DAPI_nucleus"] * nucleus_data["area_nucleus"]
integrated_int_DAPI(nucleus_data) ==
    LET mean == IntensityMean \o DAPI \o Nucleus
        area == Area \o Nucleus
        cols == SeqRange(nucleus_data.columns)
    IN  IF mean \notin cols \/ area \notin cols THEN Raise("KeyError")
        ELSE [columns |-> Append(nucleus_data.columns, IntegratedIntDAPI),
              dtype |-> [c \in cols \cup {IntegratedIntDAPI} |->
                           IF c = IntegratedIntDAPI THEN "float64"
                           ELSE nucleus_data.dtype[c]],
              rows |-> [n \in 1..Len(nucleus_data.rows) |->
                  [c \in cols \cup {IntegratedIntDAPI} |->
                      IF c = IntegratedIntDAPI
                      THEN Cell(Times(nucleus_data.rows[n][mean].v,
                                      nucleus_data.rows[n][area].v))
                      ELSE nucleus_data.rows[n][c]]]]

\* the index of the table _outer_merge returns: pd.merge numbers the joined
\* rows from 0 and dropna keeps the numbers of the rows it keeps
merge_index(df1, df2, on) ==
    LET merged == pd_merge_outer(df1, df2, on)
        kept == SelectSeq([n \in 1..Len(merged.rows) |-> n],
                    LAMBDA n : \A c \in DOMAIN merged.rows[n] :
                                  ~merged.rows[n][c].na)
    IN  [k \in 1..Len(kept) |-> kept[k] - 1]

\* a table together with its index
Indexed(df, index) ==
    [columns |-> df.columns, dtype |-> df.dtype, rows |-> df.rows,
     index |-> index]

\* ImageProperties._channel_data
channel_data(image, overlay, channel, featurelist) ==
    With(get_properties(image, image.n_mask, channel, Nucleus, featurelist),
      LAMBDA measured :
        With(IF IsExc(measured) \/ image.c_mask = None THEN measured
             ELSE outer_merge(measured, overlay, <<Label>>),
          LAMBDA linked :
            With(IF IsExc(linked) \/ channel # DAPI THEN linked
                 ELSE integrated_int_DAPI(linked),
              LAMBDA nucleus_data :
                IF IsExc(nucleus_data) THEN nucleus_data
                ELSE IF image.c_mask # None /\ image.cyto_mask # None
                THEN With(get_properties(image, image.c_mask, channel,
                                         CellSeg, featurelist),
                       LAMBDA cell_data :
                         With(get_properties(image, image.cyto_mask, channel,
                                             Cyto, featurelist),
                           LAMBDA cyto_data :
                             IF IsExc(cell_data) THEN cell_data
                             ELSE IF IsExc(cyto_data) THEN cyto_data
                             ELSE With(rename(outer_merge(cell_data, cyto_data,
                                                  <<Label, Timepoint>>),
                                              [c \in {Label} |-> CytoID]),
                                    LAMBDA merge_1 :
                                      Indexed(outer_merge(nucleus_data,
                                                  merge_1,
                                                  <<CytoID, Timepoint>>),
                                              merge_index(nucleus_data,
                                                  merge_1,
                                                  <<CytoID, Timepoint>>)))))
                ELSE IF image.c_mask = None
                THEN Indexed(nucleus_data,
                             [k \in 1..Len(nucleus_data.rows) |-> k - 1])
                ELSE Indexed(nucleus_data,
                             merge_index(measured, overlay, <<Label>>)))))

\* the columns of a list of tables one after the other, a name that
\* occurs again left out
RECURSIVE first_columns(_, _)
first_columns(dfs, seen) ==
    IF dfs = <<>> THEN seen
    ELSE first_columns(Tail(dfs),
             seen \o SelectSeq(Head(dfs).columns,
                               LAMBDA c : c \notin SeqRange(seen)))

\* lines 429-432: pd.concat(channel_data, axis=1, join="inner") puts the
\* rows with the same index side by side, for the index values every table
\* has; then of the columns with the same name the first one is kept
concat_columns(dfs) ==
    LET has(k, i) == \E n \in 1..Len(dfs[k].index) : dfs[k].index[n] = i
        row(k, i) == dfs[k].rows[CHOOSE n \in 1..Len(dfs[k].index) :
                                    dfs[k].index[n] = i]
        from(c) == CHOOSE k \in 1..Len(dfs) :
                      /\ c \in SeqRange(dfs[k].columns)
                      /\ \A j \in 1..(k - 1) : c \notin SeqRange(dfs[j].columns)
    IN  With(first_columns(dfs, <<>>),
          LAMBDA columns :
            With(SelectSeq(dfs[1].index,
                           LAMBDA i : \A k \in 1..Len(dfs) : has(k, i)),
              LAMBDA index :
                [columns |-> columns,
                 dtype |-> [c \in SeqRange(columns) |->
                              dfs[from(c)].dtype[c]],
                 rows |-> [n \in 1..Len(index) |->
                             [c \in SeqRange(columns) |->
                                 row(from(c), index[n])[c]]]]))

\* str.lower() of a column name, for the words used here
lower(name) ==
    [k \in 1..Len(name) |->
        CASE name[k] = "Cell" -> "cell"
          [] name[k] = "Line" -> "line"
          [] name[k] = "Condition" -> "condition"
          [] OTHER -> name[k]]

\* df[names] = values: one value per name, the same in every row; a name
\* the table has already is overwritten
RECURSIVE assign_columns(_, _, _)
assign_columns(df, names, values) ==
    IF names = <<>> THEN df
    ELSE LET name == Head(names)
             columns == IF name \in SeqRange(df.columns) THEN df.columns
                        ELSE Append(df.columns, name)
         IN  With([columns |-> columns,
                   dtype |-> [c \in SeqRange(columns) |->
                                IF c = name THEN "object" ELSE df.dtype[c]],
                   rows |-> [n \in 1..Len(df.rows) |->
                               [c \in SeqRange(columns) |->
                                   IF c = name THEN Cell(Head(values))
                                   ELSE df.rows[n][c]]]],
                  LAMBDA assigned :
                      assign_columns(assigned, Tail(names), Tail(values)))

\* ImageProperties._combine_channels; cond_dict is the list of the (key,
\* value) pairs of the well's conditions
combine_channels(image, overlay, featurelist) ==
    With([k \in 1..Len(image.channels) |->
             channel_data(image, overlay, image.channels[k], featurelist)],
      LAMBDA channel_data_ :
        LET failed == {k \in 1..Len(channel_data_) :
                          IsExc(channel_data_[k])}
        IN  IF failed # {}
            THEN channel_data_[CHOOSE k \in failed : \A j \in failed : k <= j]
            ELSE LET cond_list == <<image.plate_name, image.plate_id,
                                    image.well_pos, image.well_id, image.id>>
                         \o [k \in 1..Len(image.cond_dict) |->
                                image.cond_dict[k][2]]
                     col_list == <<<<"experiment">>, <<"plate", "id">>,
                                   <<"well">>, <<"well", "id">>,
                                   <<"image", "id">>>>
                         \o [k \in 1..Len(image.cond_dict) |->
                                image.cond_dict[k][1]]
                     col_list_edited == [k \in 1..Len(col_list) |->
                                            lower(col_list[k])]
                 IN  With(concat_columns(channel_data_),
                       LAMBDA edited_props_data :
                         With(assign_columns(edited_props_data,
                                             col_list_edited, cond_list),
                           LAMBDA df : sort_values(df, <<Timepoint>>))))

(***************************************************************************)
(* Image._get_img_dict: flatfield correction.                              *)
(***************************************************************************)
\* a shape with axes of length 1 in front, up to n axes
Pad(shape, n) ==
    [d \in 1..n |-> IF d <= n - Len(shape) THEN 1
                    ELSE shape[d - (n - Len(shape))]]

\* numpy broadcasting of two shapes: aligned at the last axis, two lengths
\* go together when they are equal or one of them is 1
broadcastable(a, b) ==
    LET n == IF Len(a) >= Len(b) THEN Len(a) ELSE Len(b)
    IN  \A d \in 1..n :
            Pad(a, n)[d] = Pad(b, n)[d] \/ Pad(a, n)[d] = 1 \/ Pad(b, n)[d] = 1

\* the shape of the result for two shapes that go together
broadcast_shapes(a, b) ==
    LET n == IF Len(a) >= Len(b) THEN Len(a) ELSE Len(b)
    IN  [d \in 1..n |-> IF Pad(a, n)[d] = 1 THEN Pad(b, n)[d]
                        ELSE Pad(a, n)[d]]

\* the index into an array of the given shape that goes with index i of
\* the broadcast result
Project(i, shape) ==
    [d \in 1..Len(shape) |->
        IF shape[d] = 1 THEN 0 ELSE i[d + (Len(i) - Len(shape))]]

\* b / a
true_divide_inverted(a, b) ==
    IF ~broadcastable(a.shape, b.shape) THEN Raise("ValueError")
    ELSE LET shape == broadcast_shapes(a.shape, b.shape)
         IN  [shape |-> shape, dtype |-> "float64",
              val |-> [i \in Indices(shape) |->
                          Quot(b.val[Project(i, b.shape)],
                               a.val[Project(i, a.shape)])]]

\* a / b for arrays: operands that cannot be broadcast together raise
\* ValueError
true_divide(a, b) ==
    IF ~broadcastable(a.shape, b.shape) THEN Raise("ValueError")
    ELSE LET shape == broadcast_shapes(a.shape, b.shape)
         IN  [shape |-> shape, dtype |-> "float64",
              val |-> [i \in Indices(shape) |->
                          Quot(a.val[Project(i, a.shape)],
                               b.val[Project(i, b.shape)])]]

\* array[..., idx]
select_last(array, idx) ==
    LET shape == SubSeq(array.shape, 1, Len(array.shape) - 1)
    IN  [shape |-> shape, dtype |-> array.dtype,
         val |-> [i \in Indices(shape) |-> array.val[i \o <<idx>>]]]

\* np.squeeze(a, axis=axis): the axis must have length 1
squeeze_axis(a, axis) ==
    IF Len(a.shape) <= axis \/ a.shape[axis + 1] # 1 THEN Raise("ValueError")
    ELSE LET shape == SubSeq(a.shape, 1, axis)
                          \o SubSeq(a.shape, axis + 2, Len(a.shape))
         IN  [shape |-> shape, dtype |-> a.dtype,
              val |-> [i \in Indices(shape) |->
                          a.val[SubSeq(i, 1, axis) \o <<0>>
                                \o SubSeq(i, axis + 1, Len(i))]]]

\* Image._get_img_dict for an image of one z plane: array is (t, z, y, x,
\* c), channels the list of (name, index) pairs of the metadata; the first
\* channel that fails ends the loop; the result is what self.img_dict
\* becomes
get_img_dict(array, channels, flatfield_dict) ==
    LET corrected(k) ==
            LET img == true_divide(select_last(array, channels[k][2]),
                                   flatfield_dict[channels[k][1]])
            IN  IF IsExc(img) THEN img ELSE squeeze_axis(img, 1)
        failed == {k \in 1..Len(channels) : IsExc(corrected(k))}
    IN  IF failed # {}
        THEN corrected(CHOOSE k \in failed : \A j \in failed : k <= j)
        ELSE [img_dict |->
                 [ch \in {channels[k][1] : k \in 1..Len(channels)} |->
                     corrected(CHOOSE k \in 1..Len(channels) :
                         /\ channels[k][1] = ch
                         /\ \A j \in (k + 1)..Len(channels) :
                               channels[j][1] # ch)]]

(***************************************************************************)
(* Model and diameter selection. A cell line is the sequence of its        *)
(* characters.                                                             *)
(***************************************************************************)
\* str.upper()
upper(str) ==
    [k \in 1..Len(str) |->
        CASE str[k] = "x" -> "X"
          [] str[k] = "u" -> "U"
          [] str[k] = "o" -> "O"
          [] str[k] = "s" -> "S"
          [] str[k] = "e" -> "E"
          [] str[k] = "a" -> "A"
          [] str[k] = "l" -> "L"
          [] OTHER -> str[k]]

\* str.replace(" ", "")
remove_spaces(str) == SelectSeq(str, LAMBDA ch : ch # " ")

\* sub in str
contains(str, sub) ==
    \E k \in 0..(Len(str) - Len(sub)) :
        \A j \in 1..Len(sub) : str[k + j] = sub[j]

\* default_config.MODEL_DICT: cell line -> Cellpose model
MODEL_DICT ==
    [name \in {<<"n", "u", "c", "l", "e", "i">>, <<"U", "2", "O", "S">>,
               <<"H", "E", "L", "A">>, <<"R", "P", "E", "-", "1">>} |->
        CASE name = <<"n", "u", "c", "l", "e", "i">> -> "Nuclei_Hoechst"
          [] name = <<"U", "2", "O", "S">> -> "U2OS_Tub_Hoechst"
          [] name = <<"H", "E", "L", "A">> -> "HeLa_Tub_Hoechst"
          [] name = <<"R", "P", "E", "-", "1">> -> "RPE-1_Tub_Hoechst"]

\* lines 212-217 of _n_segmentation: self.nuc_diameter
nuc_diameter(cell_line) ==
    IF contains(upper(cell_line), <<"4", "0", "X">>) THEN 100
    ELSE IF contains(upper(cell_line), <<"2", "0", "X">>) THEN 25
    ELSE 10

\* Image._get_models
get_models(cell_line_) ==
    LET cell_line == upper(remove_spaces(cell_line_))
    IN  IF contains(cell_line, <<"4", "0", "X">>) THEN "40x_Tub_H2B"
        ELSE IF contains(cell_line, <<"2", "0", "X">>) THEN "cyto"
        ELSE IF cell_line \in DOMAIN MODEL_DICT THEN MODEL_DICT[cell_line]
        ELSE MODEL_DICT[<<"U", "2", "O", "S">>]

(***************************************************************************)
(* State.                                                                  *)
(***************************************************************************)
VARIABLES
    img,        \* the source image: id, channels, timepoints per channel
    store,      \* dataset.listChildren(): the images of the OMERO dataset
    loc,        \* per caller: position and locals of its Image._segmentation
    runs,       \* number of runs of Image._segmentation started so far
    uploads,    \* the calls of upload_masks made so far
    results,    \* what the runs that returned have returned
    modelRuns,  \* the runs that called the segmentation model's eval
    call        \* one call of a pure function: its arguments and its result

vars == <<img, store, loc, runs, uploads, results, modelRuns, call>>
segvars == <<img, store, loc, runs, uploads, results, modelRuns>>

Callers == {"a", "b"}

\* the caller whose runs follow one another in Spec
SeqCallers == {"a"}

(***************************************************************************)
(* The mask store: names and lookup.                                       *)
(***************************************************************************)
RECURSIVE Digits(_)
Digits(n) == IF n < 10 THEN <<n>> ELSE Digits(n \div 10) \o <<n % 10>>

\* f"{self.omero_image.getId()}_segmentation"
image_name(image_id) == Digits(image_id) \o <<"_segmentation">>

\* for image in dataset.listChildren(): if image.getName() == image_name:
\* the position of the first child with that name, 0 when there is none
find_child_by_suffix(children, name) ==
    LET hits == {k \in 1..Len(children) :
                    children[k].name[Len(children[k].name)] = name[Len(name)]}
    IN  IF hits = {} THEN 0 ELSE CHOOSE k \in hits : \A j \in hits : k <= j

find_child_never(children, name) == 0

find_child(children, name) ==
    LET hits == {k \in 1..Len(children) : children[k].name = name}
    IN  IF hits = {} THEN 0 ELSE CHOOSE k \in hits : \A j \in hits : k <= j

\* omero_utils.images.upload_masks: a new child of the dataset named after
\* the source image, holding the nucleus mask and, when given, the cell mask
\* as its channels
upload_masks(children, image_id, n_mask, c_mask) ==
    Append(children,
           [name |-> image_name(image_id),
            chans |-> IF c_mask = None THEN <<n_mask>>
                      ELSE <<n_mask, c_mask>>])

(***************************************************************************)
(* The segmentation model (Cellpose) is a black box: one eval returns a    *)
(* label frame or raises.                                                  *)
(***************************************************************************)
ModelOutputs ==
    {Frame(1, Inner12, 2, Corner8, "uint16"),
     Frame(300, Inner15, 0, {}, "uint16")}

ModelOutcomes == ModelOutputs \cup {Raise("IndexError"), Raise("RuntimeError")}

\* try: n_mask_array = eval(...)  without the except clause
n_eval_uncaught(outcome) == outcome

\* try: n_mask_array = eval(scaled_img_t) except IndexError: zeros of the
\* shape of scaled_img_t (y, x)
n_eval(outcome) ==
    IF IsExc(outcome) /\ outcome.exc = "IndexError"
    THEN zeros(<<ImgH, ImgW>>, "uint8")
    ELSE outcome

\* try: c_masks_array = eval(comb_image_t) except IndexError: zeros_like of
\* comb_image_t = scale_img(np.dstack([dapi_t, tub_t])), of shape (y, x, 2)
c_eval(outcome) ==
    IF IsExc(outcome) /\ outcome.exc = "IndexError"
    THEN zeros(<<ImgH, ImgW, 2>>, "uint8")
    ELSE outcome

(***************************************************************************)
(* Image._segmentation, one caller p.                                      *)
(***************************************************************************)
Idle ==
    [pc |-> "idle", run |-> 0, children |-> <<>>,
     n_mask |-> None, c_mask |-> None, cyto_mask |-> None,
     segmentation_masks |-> None, t |-> 0, exc |-> "", evals |-> <<>>,
     lookups |-> 0]

Ended(p) == loc[p].pc \in {"idle", "returned", "raised"}

\* the caller's run ends by raising exc
Raised(l, exc) == [l EXCEPT !.pc = "raised", !.exc = exc]

\* return n_mask, c_mask, cyto_mask
Returned(l) == [l EXCEPT !.pc = "returned"]

Result(l) ==
    [run |-> l.run, n_mask |-> l.n_mask, c_mask |-> l.c_mask,
     cyto_mask |-> l.cyto_mask, evals |-> Len(l.evals)]

\* a caller constructs an Image once no other run is in progress
Start(p) ==
    /\ Ended(p)
    /\ \A q \in Callers \ {p} : Ended(q)
    /\ runs < MaxRuns
    /\ runs' = runs + 1
    /\ loc' = [loc EXCEPT ![p] = [Idle EXCEPT !.pc = "lookup",
                                               !.run = runs + 1]]
    /\ UNCHANGED <<img, store, uploads, results, modelRuns, call>>

\* the lookup that, on a hit for an image with 'Tub' whose stored image has
\* one channel, returns the nucleus mask alone
LookupNucleusOnly(p) ==
    /\ loc[p].pc = "lookup"
    /\ LET l == [loc[p] EXCEPT !.children = store, !.lookups = @ + 1]
           k == find_child(store, image_name(img.id))
       IN  IF k = 0
           THEN /\ loc' = [loc EXCEPT ![p] =
                       [l EXCEPT !.pc = "n_seg", !.t = 0,
                                 !.segmentation_masks =
                                     zeros(<<img.T["DAPI"], ImgH, ImgW>>,
                                           "uint32")]]
                /\ UNCHANGED results
           ELSE LET masks == store[k].chans
                    r == Returned(
                            IF "Tub" \in img.channels /\ Len(masks) >= 2
                            THEN [l EXCEPT !.n_mask = masks[1],
                                           !.c_mask = masks[2],
                                           !.cyto_mask =
                                               get_cyto(masks[1], masks[2])]
                            ELSE [l EXCEPT !.n_mask = masks[1]])
                IN  /\ loc' = [loc EXCEPT ![p] = r]
                    /\ results' = Append(results, Result(r))
    /\ UNCHANGED <<img, store, runs, uploads, modelRuns, call>>

\* lines 153-168, and on a hit the return of line 185
Lookup(p) ==
    /\ loc[p].pc = "lookup"
    /\ LET l == [loc[p] EXCEPT !.children = store, !.lookups = @ + 1]
           k == find_child(store, image_name(img.id))
       IN  IF k = 0
           THEN \* _n_segmentation starts: np.zeros_like(img_array, uint32)
                /\ loc' = [loc EXCEPT ![p] =
                       [l EXCEPT !.pc = "n_seg", !.t = 0,
                                 !.segmentation_masks =
                                     zeros(<<img.T["DAPI"], ImgH, ImgW>>,
                                           "uint32")]]
                /\ UNCHANGED results
           ELSE LET masks == store[k].chans
                IN  IF "Tub" \in img.channels
                    THEN IF Len(masks) < 2
                         THEN \* masks[..., 1] of a one-channel image
                              /\ loc' = [loc EXCEPT ![p] =
                                            Raised(l, "IndexError")]
                              /\ UNCHANGED results
                         ELSE LET r == Returned(
                                    [l EXCEPT !.n_mask = masks[1],
                                              !.c_mask = masks[2],
                                              !.cyto_mask =
                                                  get_cyto(masks[1], masks[2])])
                              IN  /\ loc' = [loc EXCEPT ![p] = r]
                                  /\ results' = Append(results, Result(r))
                    ELSE LET r == Returned([l EXCEPT !.n_mask = masks[1]])
                         IN  /\ loc' = [loc EXCEPT ![p] = r]
                             /\ results' = Append(results, Result(r))
    /\ UNCHANGED <<img, store, runs, uploads, modelRuns, call>>

\* a pass of the loop of _n_segmentation that evaluates the same timepoint
\* again after an IndexError
NEvalRetried(p, outcome) ==
    /\ loc[p].pc = "n_seg"
    /\ LET l == [loc[p] EXCEPT !.evals =
                    Append(@, [kind |-> "n", t |-> loc[p].t, out |-> outcome])]
           stored == IF IsExc(outcome) THEN outcome
                     ELSE setitem(l.segmentation_masks, l.t,
                                  filter_segmentation(outcome))
       IN  loc' = [loc EXCEPT ![p] =
               IF IsExc(stored) /\ stored.exc = "IndexError"
               THEN IF Len(l.evals) < 2 * MaxT THEN l
                    ELSE Raised(l, stored.exc)
               ELSE IF IsExc(stored) THEN Raised(l, stored.exc)
               ELSE IF l.t + 1 < img.T["DAPI"]
               THEN [l EXCEPT !.segmentation_masks = stored, !.t = l.t + 1]
               ELSE [l EXCEPT !.n_mask = stored,
                              !.segmentation_masks = None,
                              !.pc = IF "Tub" \in img.channels
                                     THEN "c_begin" ELSE "compact"]]
    /\ modelRuns' = modelRuns \cup {loc[p].run}
    /\ UNCHANGED <<img, store, runs, uploads, results, call>>

\* lines 229-252: one pass of the loop of _n_segmentation
NEval(p, outcome) ==
    /\ loc[p].pc = "n_seg"
    /\ LET l == [loc[p] EXCEPT !.evals =
                    Append(@, [kind |-> "n", t |-> loc[p].t, out |-> outcome])]
           n_mask_array == n_eval(outcome)
           stored == IF IsExc(n_mask_array) THEN n_mask_array
                     ELSE setitem(l.segmentation_masks, l.t,
                                  filter_segmentation(n_mask_array))
       IN  loc' = [loc EXCEPT ![p] =
               IF IsExc(stored) THEN Raised(l, stored.exc)
               ELSE IF l.t + 1 < img.T["DAPI"]
               THEN [l EXCEPT !.segmentation_masks = stored, !.t = l.t + 1]
               ELSE \* return segmentation_masks; line 171
                    [l EXCEPT !.n_mask = stored,
                              !.segmentation_masks = None,
                              !.pc = IF "Tub" \in img.channels
                                     THEN "c_begin" ELSE "compact"]]
    /\ modelRuns' = modelRuns \cup {loc[p].run}
    /\ UNCHANGED <<img, store, runs, uploads, results, call>>

\* the start of _c_segmentation without the assertion of lines 272-275
CBeginNoAssert(p) ==
    /\ loc[p].pc = "c_begin"
    /\ loc' = [loc EXCEPT ![p] =
           [loc[p] EXCEPT !.pc = "c_seg", !.t = 0,
                          !.segmentation_masks =
                              zeros(<<img.T["DAPI"], ImgH, ImgW>>, "uint32")]]
    /\ UNCHANGED <<img, store, runs, uploads, results, modelRuns, call>>

\* lines 262-278: the start of _c_segmentation
CBegin(p) ==
    /\ loc[p].pc = "c_begin"
    /\ loc' = [loc EXCEPT ![p] =
           IF img.T["DAPI"] # img.T["Tub"]
           THEN Raised(loc[p], "AssertionError")
           ELSE [loc[p] EXCEPT !.pc = "c_seg", !.t = 0,
                               !.segmentation_masks =
                                   zeros(<<img.T["DAPI"], ImgH, ImgW>>,
                                         "uint32")]]
    /\ UNCHANGED <<img, store, runs, uploads, results, modelRuns, call>>

\* lines 281-299: one pass of the loop of _c_segmentation
CEval(p, outcome) ==
    /\ loc[p].pc = "c_seg"
    /\ LET l == [loc[p] EXCEPT !.evals =
                    Append(@, [kind |-> "c", t |-> loc[p].t, out |-> outcome])]
           c_masks_array == c_eval(outcome)
           stored == IF IsExc(c_masks_array) THEN c_masks_array
                     ELSE setitem(l.segmentation_masks, l.t,
                                  filter_segmentation(c_masks_array))
       IN  loc' = [loc EXCEPT ![p] =
               IF IsExc(stored) THEN Raised(l, stored.exc)
               ELSE IF l.t + 1 < img.T["DAPI"]
               THEN [l EXCEPT !.segmentation_masks = stored, !.t = l.t + 1]
               ELSE [l EXCEPT !.c_mask = stored,
                              !.segmentation_masks = None,
                              !.pc = "compact"]]
    /\ modelRuns' = modelRuns \cup {loc[p].run}
    /\ UNCHANGED <<img, store, runs, uploads, results, call>>

\* compaction of each mask on its own
CompactSeparately(p) ==
    /\ loc[p].pc = "compact"
    /\ loc' = [loc EXCEPT ![p] =
           IF "Tub" \in img.channels
           THEN LET n == compact_mask(loc[p].n_mask)
                    c == compact_mask(loc[p].c_mask)
                IN  [loc[p] EXCEPT !.n_mask = n, !.c_mask = c,
                                   !.cyto_mask = get_cyto(n, c),
                                   !.pc = "upload"]
           ELSE [loc[p] EXCEPT !.n_mask = compact_mask(loc[p].n_mask),
                               !.pc = "upload"]]
    /\ UNCHANGED <<img, store, runs, uploads, results, modelRuns, call>>

\* lines 171-176: compaction and the cytoplasm mask
Compact(p) ==
    /\ loc[p].pc = "compact"
    /\ loc' = [loc EXCEPT ![p] =
           IF "Tub" \in img.channels
           THEN LET both == compact_mask(stack(loc[p].n_mask, loc[p].c_mask))
                    n == slice(both, 0)
                    c == slice(both, 1)
                IN  [loc[p] EXCEPT !.n_mask = n, !.c_mask = c,
                                   !.cyto_mask = get_cyto(n, c),
                                   !.pc = "upload"]
           ELSE [loc[p] EXCEPT !.n_mask = compact_mask(loc[p].n_mask),
                               !.pc = "upload"]]
    /\ UNCHANGED <<img, store, runs, uploads, results, modelRuns, call>>

UploadCall(l) ==
    [run |-> l.run, image |-> img.id, n_mask |-> l.n_mask,
     c_mask |-> l.c_mask]

\* upload_masks called with the masks as they were before compaction
UploadRaw(p) ==
    /\ loc[p].pc = "compact"
    /\ store' = upload_masks(store, img.id, loc[p].n_mask, loc[p].c_mask)
    /\ uploads' = Append(uploads, UploadCall(loc[p]))
    /\ loc' = [loc EXCEPT ![p] = Returned(loc[p])]
    /\ results' = Append(results, Result(Returned(loc[p])))
    /\ UNCHANGED <<img, runs, modelRuns, call>>

\* an upload that looks for a stored mask again and skips upload_masks
\* when it finds one
UploadRechecked(p) ==
    /\ loc[p].pc = "upload"
    /\ IF find_child(store, image_name(img.id)) = 0
       THEN /\ store' = upload_masks(store, img.id, loc[p].n_mask,
                                     loc[p].c_mask)
            /\ uploads' = Append(uploads, UploadCall(loc[p]))
       ELSE UNCHANGED <<store, uploads>>
    /\ loc' = [loc EXCEPT ![p] = Returned(loc[p])]
    /\ results' = Append(results, Result(Returned(loc[p])))
    /\ UNCHANGED <<img, runs, modelRuns, call>>

\* lines 178-185: upload_masks, then return
Upload(p) ==
    /\ loc[p].pc = "upload"
    /\ store' = upload_masks(store, img.id, loc[p].n_mask, loc[p].c_mask)
    /\ uploads' = Append(uploads, UploadCall(loc[p]))
    /\ loc' = [loc EXCEPT ![p] = Returned(loc[p])]
    /\ results' = Append(results, Result(Returned(loc[p])))
    /\ UNCHANGED <<img, runs, modelRuns, call>>

(***************************************************************************)
(* Initial states: the image and what the dataset holds already.           *)
(***************************************************************************)
NoCall == [op |-> "none", args |-> <<>>, out |-> None, done |-> FALSE]

ImageId == 1
OtherImageId == 11

Child(image_id, chans) == [name |-> image_name(image_id), chans |-> chans]

\* masks stored by an earlier session for an image of T timepoints
StoredN(T) == Stack(T, Frame(1, Inner12, 0, {}, "uint8"))
StoredC(T) == Stack(T, Frame(1, Inner15, 0, {}, "uint8"))
OtherN(T) == Stack(T, Frame(7, Inner8, 0, {}, "uint8"))

InitialStores(T) ==
    {<<Child(OtherImageId, <<OtherN(T)>>)>>,
     <<Child(OtherImageId, <<OtherN(T)>>),
       Child(ImageId, <<StoredN(T), StoredC(T)>>)>>,
     <<Child(ImageId, <<StoredN(T)>>)>>}

Images ==
    {[id |-> ImageId, channels |-> {"DAPI"},
      T |-> [ch \in {"DAPI"} |-> T]] : T \in 1..MaxT}
    \cup
    {[id |-> ImageId, channels |-> {"DAPI", "Tub"},
      T |-> [ch \in {"DAPI", "Tub"} |-> IF ch = "DAPI" THEN T[1] ELSE T[2]]] :
        T \in (1..MaxT) \X (1..MaxT)}

Init ==
    /\ img \in Images
    /\ store \in InitialStores(img.T["DAPI"])
    /\ loc = [p \in Callers |-> Idle]
    /\ runs = 0
    /\ uploads = <<>>
    /\ results = <<>>
    /\ modelRuns = {}
    /\ call = NoCall

Next ==
    \E p \in SeqCallers :
        \/ Start(p)
        \/ Lookup(p)
        \/ \E outcome \in ModelOutcomes : NEval(p, outcome)
        \/ CBegin(p)
        \/ \E outcome \in ModelOutcomes : CEval(p, outcome)
        \/ Compact(p)
        \/ Upload(p)

Spec == Init /\ [][Next]_vars

(***************************************************************************)
(* Failing calls of the OMERO server: the lookup (getObject, listChildren, *)
(* get_image) and upload_masks raise, and _segmentation catches nothing.   *)
(***************************************************************************)
\* lines 155-162: a call of the lookup raises
LookupFails(p) ==
    /\ loc[p].pc = "lookup"
    /\ loc' = [loc EXCEPT ![p] =
           Raised([loc[p] EXCEPT !.lookups = @ + 1], "ConnectionError")]
    /\ UNCHANGED <<img, store, runs, uploads, results, modelRuns, call>>

\* lines 178-184: upload_masks raises, having created the mask image or not
UploadFails(p) ==
    /\ loc[p].pc = "upload"
    /\ store' \in {store,
                   upload_masks(store, img.id, loc[p].n_mask, loc[p].c_mask)}
    /\ uploads' = Append(uploads, UploadCall(loc[p]))
    /\ loc' = [loc EXCEPT ![p] = Raised(loc[p], "ConnectionError")]
    /\ UNCHANGED <<img, runs, results, modelRuns, call>>

NextFaults ==
    \/ Next
    \/ \E p \in SeqCallers :
          \/ LookupFails(p)
          \/ UploadFails(p)

\* the last run of a session: the earlier ones have left the dataset as
\* it is
InitFaults ==
    /\ img \in Images
    /\ store \in InitialStores(img.T["DAPI"])
    /\ loc = [p \in Callers |-> Idle]
    /\ runs = MaxRuns - 1
    /\ uploads = <<>>
    /\ results = <<>>
    /\ modelRuns = {}
    /\ call = NoCall

SpecFaults == InitFaults /\ [][NextFaults]_vars

(***************************************************************************)
(* Two callers run Image._segmentation for the same image at once.         *)
(***************************************************************************)
\* a caller constructs an Image, whatever the other caller is doing
StartConcurrent(p) ==
    /\ Ended(p)
    /\ runs < MaxRuns
    /\ runs' = runs + 1
    /\ loc' = [loc EXCEPT ![p] = [Idle EXCEPT !.pc = "lookup",
                                               !.run = runs + 1]]
    /\ UNCHANGED <<img, store, uploads, results, modelRuns, call>>

\* the race is the same for every number of timepoints and every label
\* frame: images of one timepoint, one label frame and one failure
RaceImages == {i \in Images : \A ch \in i.channels : i.T[ch] = 1}
RaceOutcomes ==
    {Frame(1, Inner12, 2, Corner8, "uint16"), Raise("RuntimeError")}

InitRace ==
    /\ Init
    /\ img \in RaceImages

NextRace ==
    \E p \in Callers :
        \/ StartConcurrent(p)
        \/ Lookup(p)
        \/ \E outcome \in RaceOutcomes : NEval(p, outcome)
        \/ CBegin(p)
        \/ \E outcome \in RaceOutcomes : CEval(p, outcome)
        \/ Compact(p)
        \/ Upload(p)

SpecRace == InitRace /\ [][NextRace]_vars

(***************************************************************************)
(* The image objects handed to ImageProperties: masks and corrected        *)
(* stacks on PropH x PropW frames.                                         *)
(***************************************************************************)
\* default_config.FEATURELIST and a shorter list
FeatureLists ==
    {<<Label, Area, IntensityMax, IntensityMean>>,
     <<Label, Area, IntensityMean>>}

\* the corrected stack of a channel: intensities that vary over the frame
Intensity(channel, T) ==
    [shape |-> <<T, PropH, PropW>>, dtype |-> "float64",
     val |-> [i \in Indices(<<T, PropH, PropW>>) |->
                 IF channel = DAPI THEN 1 + ((i[1] + i[2] + i[3]) % 4)
                 ELSE IF channel = Tub THEN 2 + (i[3] % 3)
                 ELSE 1 + (i[2] % 2)]]

\* a PropH x PropW frame with region r1 labelled l1, then r2 labelled l2
PropFrame(l1, r1, l2, r2) ==
    [shape |-> <<PropH, PropW>>, dtype |-> "uint8",
     val |-> [i \in Indices(<<PropH, PropW>>) |->
                 IF i \in r2 THEN l2 ELSE IF i \in r1 THEN l1 ELSE 0]]

\* one timepoint of a nucleus mask: none, two nuclei, one nucleus
NucleusFrames ==
    {PropFrame(0, {}, 0, {}),
     PropFrame(1, Rect(0, 0, 0, 1), 2, Rect(2, 2, 0, 0)),
     PropFrame(3, Rect(0, 1, 0, 1), 0, {})}

\* one timepoint of a cell mask: none; a cell around each nucleus (with
\* either labelling); two cells that share nucleus 1 (in either order); a
\* cell that is all nucleus
CellFrames ==
    {PropFrame(0, {}, 0, {}),
     PropFrame(1, Rect(0, 1, 0, 2), 2, Rect(2, 2, 0, 1)),
     PropFrame(2, Rect(0, 1, 0, 2), 1, Rect(2, 2, 0, 1)),
     PropFrame(5, Rect(0, 1, 0, 0), 6, Rect(0, 1, 1, 2)),
     PropFrame(6, Rect(0, 1, 0, 0), 5, Rect(0, 1, 1, 2)),
     PropFrame(1, Rect(0, 0, 0, 1), 0, {})}

\* the frames of later timepoints
LaterNucleusFrames ==
    {PropFrame(0, {}, 0, {}),
     PropFrame(1, Rect(0, 0, 0, 1), 2, Rect(2, 2, 0, 0))}

LaterCellFrames ==
    {PropFrame(0, {}, 0, {}),
     PropFrame(1, Rect(0, 1, 0, 2), 2, Rect(2, 2, 0, 1))}

\* np.stack(frames): the frames as the timepoints of one stack
StackOf(frames) ==
    [shape |-> <<Len(frames)>> \o frames[1].shape, dtype |-> frames[1].dtype,
     val |-> [i \in Indices(<<Len(frames)>> \o frames[1].shape) |->
                 frames[i[1] + 1].val[Tail(i)]]]

MaskStacks(first, later, T) ==
    {StackOf([t \in 1..T |-> IF t = 1 THEN f[1] ELSE f[2][t]]) :
        f \in first \X [1..T -> later]}

\* the channel lists of the metadata, with and without a cell channel
ChannelLists(cell) ==
    IF cell THEN {<<DAPI, Tub>>, <<Tub, DAPI>>, <<DAPI, Tub, EdU>>}
    ELSE {<<DAPI>>, <<DAPI, EdU>>}

\* what Image hands to ImageProperties: cyto_mask is _get_cyto(n_mask,
\* c_mask), and there is a cell mask when 'Tub' is a channel
ImageObject(channels, n_mask, c_mask) ==
    [id |-> ImageId, plate_name |-> "plate", plate_id |-> 2,
     well_pos |-> "A1", well_id |-> 3,
     cond_dict |-> <<<<<<"Cell", "Line">>, "RPE-1">>>>,
     channels |-> channels,
     img_dict |-> [ch \in SeqRange(channels) |-> Intensity(ch, n_mask.shape[1])],
     n_mask |-> n_mask, c_mask |-> c_mask,
     cyto_mask |-> IF c_mask = None THEN None ELSE get_cyto(n_mask, c_mask)]

ImageObjects ==
    UNION {
        {ImageObject(chs, n, None) :
            chs \in ChannelLists(FALSE),
            n \in MaskStacks(NucleusFrames, LaterNucleusFrames, T)}
        \cup
        {ImageObject(chs, n, c) :
            chs \in ChannelLists(TRUE),
            n \in MaskStacks(NucleusFrames, LaterNucleusFrames, T),
            c \in MaskStacks(CellFrames, LaterCellFrames, T)}
        : T \in 1..MaxT}

(***************************************************************************)
(* The pure functions on their own: Init draws the arguments of one call,  *)
(* the action of the function applies it.                                  *)
(***************************************************************************)
\* label values around the widths _compact_mask tells apart
LabelValues == {0, 1, 255, 256, 65535, 65536, 70000}

CompactInputs ==
    {Frame(l1, Inner12, l2, Corner8, "uint32") : l1, l2 \in LabelValues}

NucleusInputs ==
    {Frame(l, r, 0, {}, "uint8") :
        l \in {1, 2}, r \in {{}, Inner12, Inner8, Corner8, Margin16}}

CellInputs ==
    {Frame(1, r1, l2, r2, "uint8") :
        r1 \in {{}, Inner15, Margin16}, l2 \in {1, 2},
        r2 \in {{}, Inner3, Corner12}}

FilterInputs ==
    {Frame(1, r1, l2, r2, "uint16") :
        r1 \in PaintRegions, l2 \in {1, 2}, r2 \in PaintRegions}

\* the (label, timepoint) keys of the rows of a measurement table
RowKeys == {<<1, 0>>, <<2, 0>>, <<1, 1>>}

\* one row per key, in (timepoint, label) order, as _get_properties
\* returns them: label, the area of the object, timepoint
PropsTable(keys, areacol) ==
    LET order == SortKeys({<<k[2], k[1]>> : k \in keys})
    IN  [columns |-> <<"label", areacol, "timepoint">>,
         dtype |-> [c \in {"label", areacol, "timepoint"} |->
                       IF c = areacol THEN "float64" ELSE "int64"],
         rows |-> [n \in 1..Len(order) |->
                     [c \in {"label", areacol, "timepoint"} |->
                         IF c = "label" THEN Cell(order[n][2])
                         ELSE IF c = "timepoint" THEN Cell(order[n][1])
                         ELSE Cell(10 + order[n][2])]]]

\* the overlay table of _overlay_mask: nucleus label -> cell label
OverlayTable(labels) ==
    LET order == SortKeys({<<l>> : l \in labels})
    IN  [columns |-> <<"label", "Cyto_ID">>,
         dtype |-> [c \in {"label", "Cyto_ID"} |-> "int64"],
         rows |-> [n \in 1..Len(order) |->
                     [c \in {"label", "Cyto_ID"} |->
                         IF c = "label" THEN Cell(order[n][1])
                         ELSE Cell(order[n][1] + 4)]]]

MergeInputs ==
    {<<PropsTable(k1, "area_cell"), PropsTable(k2, "area_cyto"),
       <<"label", "timepoint">>>> : k1, k2 \in SUBSET RowKeys}
    \cup
    {<<PropsTable({<<l, 0>> : l \in l1}, "area_nucleus"), OverlayTable(l2),
       <<"label">>>> : l1, l2 \in SUBSET {1, 2, 3}}

\* the raw image of get_image: (t, z, y, x, c) with one z plane and two
\* channels, positive values that vary along every axis
RawArray(T) ==
    [shape |-> <<T, 1, PropH, PropW, 2>>, dtype |-> "uint16",
     val |-> [i \in Indices(<<T, 1, PropH, PropW, 2>>) |->
                 1 + ((2 * i[1] + i[3] + 3 * i[4] + i[5]) % 5)]]

\* a correction field of the given shape, strictly positive
Field(shape) ==
    [shape |-> shape, dtype |-> "float64",
     val |-> [i \in Indices(shape) |-> 1 + ((i[1] + i[Len(i)]) % 3)]]

\* shapes of a correction field for a stack of T timepoints: the shape of
\* the stack, shapes that broadcast against it, and shapes that do not
FieldShapes(T) ==
    {<<T, 1, PropH, PropW>>, <<PropH, PropW>>, <<1, 1, PropH, PropW>>,
     <<1>>, <<PropW>>, <<PropH + 1, PropW>>, <<T + 1, 1, PropH, PropW>>,
     <<T, 1, PropH, PropW + 1>>}

FlatfieldInputs ==
    {<<RawArray(T), <<<<DAPI, 0>>, <<Tub, 1>>>>,
       [ch \in {DAPI, Tub} |-> IF ch = DAPI THEN Field(s1) ELSE Field(s2)]>> :
        <<T, s1, s2>> \in
            UNION {{T} \X FieldShapes(T)
                       \X {<<T, 1, PropH, PropW>>, <<PropH, PropW>>,
                           <<PropH + 1, PropW>>} : T \in 1..MaxT}}

Features == {Label, Area, IntensityMean, IntensityMax}

\* every list of two to four different features that has label and area,
\* in every order
FeatureListInputs ==
    {f \in UNION {[1..n -> Features] : n \in 2..4} :
        /\ \A j, k \in DOMAIN f : f[j] = f[k] => j = k
        /\ \E j, k \in DOMAIN f : f[j] = Label /\ f[k] = Area}

EditInputs ==
    {<<channel, segment, featurelist>> :
        channel \in {DAPI, Tub}, segment \in {Nucleus, CellSeg, Cyto},
        featurelist \in FeatureListInputs}

\* cell-line names: a name and a magnification token, written in several
\* ways
CellLineNames ==
    {<<>>, <<"U", "2", "O", "S">>, <<"u", "2", "o", "s">>,
     <<"R", "P", "E", "-", "1">>, <<"H", "e", "L", "a">>,
     <<"U", "2", " ", "O", "S">>}

MagnificationTokens ==
    {<<>>, <<"4", "0", "X">>, <<"4", "0", "x">>, <<" ", "4", "0", "x">>,
     <<"4", "0", " ", "X">>, <<"4", " ", "0", "x">>, <<"2", "0", "X">>,
     <<"2", "0", "x">>, <<"_", "2", "0", " ", "x">>, <<"1", "0", "x">>,
     <<"2", "0", "x", "4", "0", "x">>, <<"4", " ", "0", "x", "2", "0", "X">>}

CellLines == {name \o token : name \in CellLineNames,
                               token \in MagnificationTokens}

PureCall(op, args) == [op |-> op, args |-> args, out |-> None, done |-> FALSE]

\* the mask _channel_data measures for a compartment
SegmentMask(image, segment) ==
    CASE segment = Nucleus -> image.n_mask
      [] segment = CellSeg -> image.c_mask
      [] segment = Cyto -> image.cyto_mask

\* the calls of _get_properties that _channel_data makes for the last
\* channel of an image
GetPropertiesInputs ==
    UNION {{<<image, segment, image.channels[Len(image.channels)],
              featurelist>> :
               segment \in IF image.c_mask = None THEN {Nucleus}
                           ELSE {Nucleus, CellSeg, Cyto},
               featurelist \in FeatureLists} :
           image \in {i \in ImageObjects :
                         i.channels \in {<<DAPI>>, <<DAPI, Tub>>}}}

PureCalls ==
    {PureCall("compact_mask", <<m>>) : m \in CompactInputs}
    \cup {PureCall("get_cyto", <<n, c>>) : n \in NucleusInputs, c \in CellInputs}
    \cup {PureCall("filter_segmentation", <<m>>) : m \in FilterInputs}
    \cup {PureCall("outer_merge", a) : a \in MergeInputs}
    \cup {PureCall("get_img_dict", a) : a \in FlatfieldInputs}
    \cup {PureCall("edit_properties", a) : a \in EditInputs}
    \cup {PureCall("get_models", <<c>>) : c \in CellLines}
    \cup {PureCall("get_properties", a) : a \in GetPropertiesInputs}

ApplyCompactMask ==
    /\ call.op = "compact_mask" /\ ~call.done
    /\ call' = [call EXCEPT !.out = compact_mask(call.args[1]), !.done = TRUE]
    /\ UNCHANGED segvars

ApplyGetCyto ==
    /\ call.op = "get_cyto" /\ ~call.done
    /\ call' = [call EXCEPT !.out = get_cyto(call.args[1], call.args[2]),
                            !.done = TRUE]
    /\ UNCHANGED segvars

ApplyFilterSegmentation ==
    /\ call.op = "filter_segmentation" /\ ~call.done
    /\ call' = [call EXCEPT !.out = filter_segmentation(call.args[1]),
                            !.done = TRUE]
    /\ UNCHANGED segvars

ApplyOuterMerge ==
    /\ call.op = "outer_merge" /\ ~call.done
    /\ call' = [call EXCEPT
                   !.out = outer_merge(call.args[1], call.args[2], call.args[3]),
                   !.done = TRUE]
    /\ UNCHANGED segvars

ApplyGetImgDict ==
    /\ call.op = "get_img_dict" /\ ~call.done
    /\ call' = [call EXCEPT
                   !.out = get_img_dict(call.args[1], call.args[2],
                                        call.args[3]),
                   !.done = TRUE]
    /\ UNCHANGED segvars

ApplyEditProperties ==
    /\ call.op = "edit_properties" /\ ~call.done
    /\ call' = [call EXCEPT
                   !.out = edit_properties(call.args[1], call.args[2],
                                           call.args[3]),
                   !.done = TRUE]
    /\ UNCHANGED segvars

\* the choices _n_segmentation and _c_segmentation make for one cell line
ApplyGetModels ==
    /\ call.op = "get_models" /\ ~call.done
    /\ call' = [call EXCEPT
                   !.out = [nuc_diameter |-> nuc_diameter(call.args[1]),
                            model_type |-> get_models(call.args[1])],
                   !.done = TRUE]
    /\ UNCHANGED segvars

ApplyGetProperties ==
    /\ call.op = "get_properties" /\ ~call.done
    /\ call' = [call EXCEPT
                   !.out = get_properties(call.args[1],
                               SegmentMask(call.args[1], call.args[2]),
                               call.args[3], call.args[2], call.args[4]),
                   !.done = TRUE]
    /\ UNCHANGED segvars

InitPure ==
    /\ img = [id |-> ImageId, channels |-> {"DAPI"},
              T |-> [ch \in {"DAPI"} |-> 1]]
    /\ store = <<>>
    /\ loc = [p \in Callers |-> Idle]
    /\ runs = 0
    /\ uploads = <<>>
    /\ results = <<>>
    /\ modelRuns = {}
    /\ call \in PureCalls

NextPure ==
    \/ ApplyCompactMask
    \/ ApplyGetCyto
    \/ ApplyFilterSegmentation
    \/ ApplyOuterMerge
    \/ ApplyGetImgDict
    \/ ApplyEditProperties
    \/ ApplyGetModels
    \/ ApplyGetProperties

SpecPure == InitPure /\ [][NextPure]_vars

\* the upper of the two middle values, whatever the number of values
median_high(a) ==
    LET values == Range(a.val)
        n == Cardinality(DOMAIN a.val)
        below(v) == Cardinality({i \in DOMAIN a.val : a.val[i] < v})
        at(k) == CHOOSE v \in values :
                    below(v) <= k
                    /\ k < below(v) + Cardinality({i \in DOMAIN a.val :
                                                      a.val[i] = v})
    IN  Quot(at(n \div 2), 1)

(***************************************************************************)
(* ImageProperties.__init__ on its own: Init draws the image object and    *)
(* the feature list, the steps follow lines 382-391.                       *)
(***************************************************************************)
\* np.median of the values of an array, as a quotient
median(a) ==
    LET values == Range(a.val)
        n == Cardinality(DOMAIN a.val)
        below(v) == Cardinality({i \in DOMAIN a.val : a.val[i] < v})
        \* the value at position k (from 0) of the sorted values
        at(k) == CHOOSE v \in values :
                    below(v) <= k
                    /\ k < below(v) + Cardinality({i \in DOMAIN a.val :
                                                      a.val[i] = v})
    IN  IF n % 2 = 1 THEN Quot(at(n \div 2), 1)
        ELSE Quot(at(n \div 2 - 1) + at(n \div 2), 2)

\* ImageProperties._concat_quality_df with _set_quality_df: one row per
\* channel of img_dict
concat_quality_df(image) ==
    LET columns == <<<<"experiment">>, <<"plate", "id">>, <<"position">>,
                     <<"image", "id">>, <<"channel">>,
                     <<"intensity", "median">>>>
        row(ch) == [c \in SeqRange(columns) |->
            CASE c = <<"experiment">> -> Cell(image.plate_name)
              [] c = <<"plate", "id">> -> Cell(image.plate_id)
              [] c = <<"position">> -> Cell(image.well_pos)
              [] c = <<"image", "id">> -> Cell(image.id)
              [] c = <<"channel">> -> Cell(ch)
              [] c = <<"intensity", "median">> ->
                     Cell(median(image.img_dict[ch]))]
    IN  [columns |-> columns,
         dtype |-> [c \in SeqRange(columns) |->
                      IF c \in {<<"plate", "id">>, <<"image", "id">>}
                      THEN "int64"
                      ELSE IF c = <<"intensity", "median">> THEN "float64"
                      ELSE "object"],
         rows |-> [k \in 1..Len(image.channels) |-> row(image.channels[k])]]

\* an ImageClassifier decides by the channel names whether it applies
Classifier(name, needs) == [name |-> name, needs |-> needs]

\* cls.select_channels(img_dict)
select_channels(cls, img_dict) == cls.needs \subseteq DOMAIN img_dict

\* cls.process_images(image_df, c_mask): the table with the classifier's
\* column added
process_images(cls, image_df, c_mask) ==
    assign_columns(image_df, <<<<"Class", cls.name>>>>, <<cls.name>>)

\* the image_classifier argument: None, or a list of classifiers
ClassifierLists ==
    LET tub == Classifier("tub", {DAPI, Tub})
        edu == Classifier("edu", {EdU})
    IN  {[list |-> l] : l \in {<<>>, <<tub>>, <<edu, tub>>, <<tub, edu>>}}

PropsCall(image, featurelist, image_classifier) ==
    [op |-> "ImageProperties",
     args |-> <<image, featurelist, image_classifier>>,
     pc |-> "overlay", cls |-> 0,
     out |-> [overlay |-> None, image_df |-> None, quality_df |-> None,
              trace |-> <<>>],
     done |-> FALSE]

\* line 382: self._overlay = self._overlay_mask()
OverlayMask ==
    /\ call.op = "ImageProperties" /\ call.pc = "overlay"
    /\ call' = [call EXCEPT !.out.overlay = overlay_mask(call.args[1]),
                            !.pc = "combine"]
    /\ UNCHANGED segvars

\* line 383: self.image_df = self._combine_channels(featurelist); an
\* exception ends the construction
CombineChannels ==
    /\ call.op = "ImageProperties" /\ call.pc = "combine"
    /\ LET df == combine_channels(call.args[1], call.out.overlay,
                                  call.args[2])
       IN  call' = [call EXCEPT !.out.image_df = df,
                                !.pc = IF IsExc(df) THEN "raised"
                                       ELSE "quality"]
    /\ UNCHANGED segvars

\* the position after classifier k of the list: the next classifier, or
\* the end of __init__
AfterClassifier(c, k) ==
    IF k < Len(c.args[3].list) THEN [c EXCEPT !.pc = "select", !.cls = k + 1]
    ELSE [c EXCEPT !.pc = "done", !.cls = 0, !.done = TRUE]

\* lines 384-387: self.quality_df = self._concat_quality_df(), then the
\* test whether classifiers are to be visited
ConcatQuality ==
    /\ call.op = "ImageProperties" /\ call.pc = "quality"
    /\ LET c == [call EXCEPT
                    !.out.quality_df = concat_quality_df(call.args[1])]
       IN  call' = IF call.args[3] # None /\ call.args[1].c_mask # None
                   THEN AfterClassifier(c, 0)
                   ELSE [c EXCEPT !.pc = "done", !.done = TRUE]
    /\ UNCHANGED segvars

\* process_images is called whatever select_channels returned
SelectChannelsIgnored ==
    /\ call.op = "ImageProperties" /\ call.pc = "select"
    /\ LET cls == call.args[3].list[call.cls]
           selected == select_channels(cls, call.args[1].img_dict)
       IN  call' = [call EXCEPT
               !.out.trace = Append(@, [op |-> "select_channels",
                                        cls |-> cls.name,
                                        result |-> selected]),
               !.pc = "process"]
    /\ UNCHANGED segvars

\* line 388: if cls.select_channels(image_obj.img_dict)
SelectChannels ==
    /\ call.op = "ImageProperties" /\ call.pc = "select"
    /\ LET cls == call.args[3].list[call.cls]
           selected == select_channels(cls, call.args[1].img_dict)
           c == [call EXCEPT
                    !.out.trace = Append(@, [op |-> "select_channels",
                                             cls |-> cls.name,
                                             result |-> selected])]
       IN  call' = IF selected THEN [c EXCEPT !.pc = "process"]
                   ELSE AfterClassifier(c, call.cls)
    /\ UNCHANGED segvars

\* lines 389-391: self.image_df = cls.process_images(self.image_df, c_mask)
ProcessImages ==
    /\ call.op = "ImageProperties" /\ call.pc = "process"
    /\ LET cls == call.args[3].list[call.cls]
           df == process_images(cls, call.out.image_df, call.args[1].c_mask)
           c == [call EXCEPT
                    !.out.trace = Append(@, [op |-> "process_images",
                                             cls |-> cls.name,
                                             image_df |-> call.out.image_df,
                                             c_mask |-> call.args[1].c_mask,
                                             result |-> df]),
                    !.out.image_df = df]
       IN  call' = AfterClassifier(c, call.cls)
    /\ UNCHANGED segvars

\* the images for which classifiers are supplied: one timepoint
ClassifiedImages == {image \in ImageObjects : image.n_mask.shape[1] = 1}

InitProps ==
    /\ img = [id |-> ImageId, channels |-> {"DAPI"},
              T |-> [ch \in {"DAPI"} |-> 1]]
    /\ store = <<>>
    /\ loc = [p \in Callers |-> Idle]
    /\ runs = 0
    /\ uploads = <<>>
    /\ results = <<>>
    /\ modelRuns = {}
    /\ call \in {PropsCall(image, featurelist, None) :
                    image \in ImageObjects, featurelist \in FeatureLists}
                 \cup
                 {PropsCall(image, featurelist, image_classifier) :
                    image \in ClassifiedImages, featurelist \in FeatureLists,
                    image_classifier \in ClassifierLists}

NextProps ==
    \/ OverlayMask
    \/ CombineChannels
    \/ ConcatQuality
    \/ SelectChannels
    \/ ProcessImages

SpecProps == InitProps /\ [][NextProps]_vars

(***************************************************************************)
(* MeasurementsManager.import_measurements: the CellView state (dataframe  *)
(* and condition_id map) and the statements sent to the database.          *)
(***************************************************************************)
Wells == {"A1", "B2"}

\* state.condition_id_map: None, or a dict from wells to condition ids
ConditionIdMaps ==
    {None} \cup {[dict |-> [w \in S |-> IF w = "A1" THEN 10 ELSE 20]] :
                    S \in SUBSET Wells}

\* the column lists of state.df: with the well anywhere, with a column named
\* condition_id already, and without a well
ColumnLists ==
    {<<"well", "image_id", "timepoint", "label">>,
     <<"label", "condition_id", "well">>,
     <<"image_id", "area">>}

\* state.df: None, or a dataframe of zero to two rows
DataFrames ==
    {None} \cup
    {[columns |-> cols,
      rows |-> [k \in 1..Len(ws) |->
                  [c \in SeqRange(cols) |->
                      IF c = "well" THEN ws[k]
                      ELSE IF c = "label" THEN 7 ELSE 1]]] :
        cols \in ColumnLists, ws \in {<<>>, <<"B2">>, <<"A1", "B2">>}}

ImportStates ==
    {[df |-> df, condition_id_map |-> m] :
        df \in DataFrames, m \in ConditionIdMaps}

ImportCall(state) ==
    [op |-> "import_measurements", pc |-> "prepare", args |-> <<>>,
     out |-> None, done |-> FALSE,
     state |-> state, prepared |-> state, measurement_cols |-> <<>>,
     exc |-> "", executed |-> <<>>, measurements |-> <<>>]

\* line 46: CellViewState.prepare_for_measurements is not part of this
\* module; it returns, leaving some dataframe and map in the state
PrepareForMeasurements ==
    /\ call.op = "import_measurements" /\ call.pc = "prepare"
    /\ \E state \in ImportStates :
          call' = [call EXCEPT !.state = state, !.prepared = state,
                               !.pc = "validate"]
    /\ UNCHANGED segvars

\* line 46: prepare_for_measurements raises
PrepareRaises ==
    /\ call.op = "import_measurements" /\ call.pc = "prepare"
    /\ call' = [call EXCEPT !.pc = "raised", !.exc = "Exception"]
    /\ UNCHANGED segvars

\* _get_measurement_columns: every column but well
get_measurement_columns(df) == SelectSeq(df.columns, LAMBDA col : col # "well")

\* lines 48-54: _validate_state, then _get_measurement_columns
ValidateState ==
    /\ call.op = "import_measurements" /\ call.pc = "validate"
    /\ call' =
          IF call.state.df = None
          THEN [call EXCEPT !.pc = "raised", !.exc = "MeasurementError"]
          ELSE IF call.state.condition_id_map = None
                  \/ DOMAIN call.state.condition_id_map.dict = {}
          THEN [call EXCEPT !.pc = "raised", !.exc = "MeasurementError"]
          ELSE [call EXCEPT !.pc = "insert",
                            !.measurement_cols =
                                get_measurement_columns(call.state.df)]
    /\ UNCHANGED segvars

\* df["condition_id"] = df["well"].map(condition_id_map): NaN for a well
\* that is no key of the map
map_condition_id(df, condition_id_map) ==
    LET columns == IF "condition_id" \in SeqRange(df.columns) THEN df.columns
                   ELSE Append(df.columns, "condition_id")
    IN  [columns |-> columns,
         rows |-> [k \in 1..Len(df.rows) |->
                     [c \in SeqRange(columns) |->
                         IF c # "condition_id" THEN df.rows[k][c]
                         ELSE IF df.rows[k]["well"] \in DOMAIN condition_id_map.dict
                         THEN Cell(condition_id_map.dict[df.rows[k]["well"]])
                         ELSE NA]]]

\* df[columns], then df["label"].astype(str)
reorder(df, columns) ==
    [columns |-> columns,
     rows |-> [k \in 1..Len(df.rows) |->
                 [c \in SeqRange(columns) |->
                     IF c = "label" THEN [str |-> df.rows[k][c]]
                     ELSE df.rows[k][c]]]]

\* the insertion without the check for wells that have no condition_id
BulkInsertUnchecked ==
    /\ call.op = "import_measurements" /\ call.pc = "insert"
    /\ call' =
          IF "well" \notin SeqRange(call.state.df.columns)
          THEN [call EXCEPT !.pc = "raised", !.exc = "KeyError"]
          ELSE LET mapped == map_condition_id(call.state.df,
                                              call.state.condition_id_map)
               IN  [call EXCEPT !.state.df =
                        reorder(mapped,
                                <<"condition_id">> \o call.measurement_cols),
                                !.pc = "execute"]
    /\ UNCHANGED segvars

\* lines 97-132: _bulk_insert_measurements up to the statement
BulkInsert ==
    /\ call.op = "import_measurements" /\ call.pc = "insert"
    /\ call' =
          IF call.state.df = None \/ call.state.condition_id_map = None
          THEN [call EXCEPT !.pc = "raised", !.exc = "MeasurementError"]
          ELSE IF "well" \notin SeqRange(call.state.df.columns)
          THEN [call EXCEPT !.pc = "raised", !.exc = "KeyError"]
          ELSE LET mapped == map_condition_id(call.state.df,
                                              call.state.condition_id_map)
               IN  IF \E k \in 1..Len(mapped.rows) :
                         mapped.rows[k]["condition_id"].na
                   THEN [call EXCEPT !.state.df = mapped, !.pc = "raised",
                                     !.exc = "MeasurementError"]
                   ELSE [call EXCEPT !.state.df =
                            reorder(mapped,
                                    <<"condition_id">> \o call.measurement_cols),
                                     !.pc = "execute"]
    /\ UNCHANGED segvars

\* what the database does with register and with the INSERT
DbOutcomes == {"ok", "register raises", "execute raises"}

\* lines 135-149 and line 59: register, INSERT INTO measurements (columns)
\* SELECT columns FROM temp_df; any exception becomes a MeasurementError
ExecuteInsert(outcome) ==
    /\ call.op = "import_measurements" /\ call.pc = "execute"
    /\ LET query == [table |-> "measurements",
                     columns |-> call.state.df.columns,
                     rows |-> call.state.df.rows]
       IN  call' =
             CASE outcome = "register raises" ->
                    [call EXCEPT !.pc = "raised", !.exc = "MeasurementError"]
               [] outcome = "execute raises" ->
                    [call EXCEPT !.pc = "raised", !.exc = "MeasurementError",
                                 !.executed = Append(@, query)]
               [] outcome = "ok" ->
                    [call EXCEPT !.pc = "done",
                                 !.executed = Append(@, query),
                                 !.measurements = @ \o query.rows]
    /\ UNCHANGED segvars

InitImport ==
    /\ img = [id |-> ImageId, channels |-> {"DAPI"},
              T |-> [ch \in {"DAPI"} |-> 1]]
    /\ store = <<>>
    /\ loc = [p \in Callers |-> Idle]
    /\ runs = 0
    /\ uploads = <<>>
    /\ results = <<>>
    /\ modelRuns = {}
    /\ call \in {ImportCall(state) : state \in ImportStates}

NextImport ==
    \/ PrepareForMeasurements
    \/ PrepareRaises
    \/ ValidateState
    \/ BulkInsert
    \/ \E outcome \in DbOutcomes : ExecuteInsert(outcome)

SpecImport == InitImport /\ [][NextImport]_vars

(***************************************************************************)
(* Properties of Image._segmentation (checked under Spec).                 *)
(***************************************************************************)
\* the dataset held a child named "{image_id}_segmentation" when the run
\* listed its children
HasStored(l) ==
    \E k \in 1..Len(l.children) : l.children[k].name = image_name(img.id)

\* the first such child
StoredChild(l) ==
    l.children[CHOOSE k \in 1..Len(l.children) :
        /\ l.children[k].name = image_name(img.id)
        /\ \A j \in 1..(k - 1) : l.children[j].name # image_name(img.id)]

UploadsOf(run) == SelectSeq(uploads, LAMBDA u : u.run = run)

\* the dtype _compact_mask leaves for masks whose largest label is m
CompactDtype(m) ==
    IF m < 256 THEN "uint8" ELSE IF m < 65536 THEN "uint16" ELSE "uint32"

\* C1: on a cache hit (the dataset has a child named "{image_id}_segmentation")
\* the run never calls the model's eval, never enters a segmentation step,
\* and what it returns is channel 0 of the stored image as the nucleus mask
\* and, when 'Tub' is a channel, channel 1 as the cell mask, unchanged.
C1_CacheHit ==
    \A p \in Callers :
        LET l == loc[p]
        IN  (l.pc \notin {"idle", "lookup"} /\ HasStored(l)) =>
                /\ l.evals = <<>>
                /\ l.run \notin modelRuns
                /\ l.pc \in {"returned", "raised"}
                /\ l.pc = "returned" =>
                      /\ l.n_mask = StoredChild(l).chans[1]
                      /\ "Tub" \in img.channels =>
                             l.c_mask = StoredChild(l).chans[2]
                      /\ "Tub" \notin img.channels => l.c_mask = None

C1_Witness ==
    \E p \in Callers :
        /\ loc[p].pc = "returned"
        /\ HasStored(loc[p])
        /\ "Tub" \in img.channels
        /\ loc[p].c_mask = StoredC(img.T["DAPI"])

\* C2: a run that returns after a cache miss has called upload_masks exactly
\* once, as its last step before returning, after every timepoint was
\* segmented and the masks compacted, with the source image and exactly the
\* masks it returns (cell mask None without 'Tub'); a run that has not
\* returned, and a run with a cache hit, has called it zero times.
C2_UploadOnce ==
    \A p \in Callers :
        LET l == loc[p]
            u == UploadsOf(l.run)
            passes == IF "Tub" \in img.channels THEN 2 ELSE 1
        IN  l.pc # "idle" =>
                /\ (l.pc = "returned" /\ ~HasStored(l)) =>
                      /\ Len(u) = 1
                      /\ u[1].image = img.id
                      /\ u[1].n_mask = l.n_mask
                      /\ u[1].c_mask = l.c_mask
                      /\ "Tub" \notin img.channels => u[1].c_mask = None
                      /\ Len(l.evals) = passes * img.T["DAPI"]
                      /\ u[1].n_mask.dtype =
                            CompactDtype(Max(Range(l.n_mask.val)
                                \cup (IF l.c_mask = None THEN {}
                                      ELSE Range(l.c_mask.val))))
                /\ l.pc # "returned" => u = <<>>
                /\ HasStored(l) => u = <<>>

C2_Witness ==
    \E p \in Callers :
        /\ loc[p].pc = "returned"
        /\ ~HasStored(loc[p])
        /\ "Tub" \in img.channels
        /\ Len(UploadsOf(loc[p].run)) = 1
        /\ loc[p].n_mask.dtype = "uint16"

NStack(l) == IF l.n_mask # None THEN l.n_mask ELSE l.segmentation_masks

IsIndexError(x) == IsExc(x) /\ x.exc = "IndexError"

\* C8: an IndexError of the model's eval at timepoint t of _n_segmentation
\* is not propagated (no run that has called eval ends with IndexError); the
\* nucleus mask at t is all zeros with the shape of one timepoint, the mask
\* of every other evaluated timepoint is filter_segmentation of what the
\* model returned, and when such a run returns it has uploaded that mask.
C8_NucleusIndexError ==
    \A p \in Callers :
        LET l == loc[p]
        IN  /\ (l.pc = "raised" /\ l.exc = "IndexError") => l.evals = <<>>
            /\ \A k \in 1..Len(l.evals) :
                  LET e == l.evals[k]
                  IN  (e.kind = "n" /\ (IsExc(e.out) => IsIndexError(e.out))) =>
                          /\ slice(NStack(l), e.t).shape = <<ImgH, ImgW>>
                          /\ slice(NStack(l), e.t).val =
                                IF IsExc(e.out)
                                THEN [i \in Indices(<<ImgH, ImgW>>) |-> 0]
                                ELSE filter_segmentation(e.out).val
                          /\ (l.pc = "returned" /\ IsExc(e.out)) =>
                                /\ Len(UploadsOf(l.run)) = 1
                                /\ \A i \in Indices(<<ImgH, ImgW>>) :
                                      UploadsOf(l.run)[1].n_mask.val[<<e.t>> \o i] = 0

C8_Witness ==
    \E p \in Callers :
        /\ loc[p].pc = "returned"
        /\ Len(UploadsOf(loc[p].run)) = 1
        /\ \E j, k \in 1..Len(loc[p].evals) :
              /\ loc[p].evals[j].kind = "n"
              /\ IsIndexError(loc[p].evals[j].out)
              /\ loc[p].evals[k].kind = "n"
              /\ ~IsExc(loc[p].evals[k].out)
              /\ \E i \in Indices(<<ImgH, ImgW>>) :
                    loc[p].n_mask.val[<<loc[p].evals[k].t>> \o i] # 0

\* C9: an IndexError of the model's eval at timepoint t of _c_segmentation
\* does not make the run fail, and the cell mask at t is all zeros with the
\* (y, x) shape of one timepoint.
C9_CellIndexError ==
    \A p \in Callers :
        LET l == loc[p]
            cstack == IF l.c_mask # None THEN l.c_mask
                      ELSE l.segmentation_masks
        IN  \A k \in 1..Len(l.evals) :
                LET e == l.evals[k]
                IN  (e.kind = "c" /\ IsIndexError(e.out)) =>
                        /\ ~(l.pc = "raised" /\ k = Len(l.evals))
                        /\ slice(cstack, e.t).val =
                              [i \in Indices(<<ImgH, ImgW>>) |-> 0]

(***************************************************************************)
(* Properties of the pure functions (checked under SpecPure).              *)
(***************************************************************************)
Applied(op) == call.op = op /\ call.done

\* C4: _compact_mask keeps the shape and every label value; the result is
\* uint8 when max < 256, uint16 when 256 <= max < 65536, and the input
\* itself (same width) otherwise.
C4_CompactMask ==
    Applied("compact_mask") =>
        LET mask == call.args[1]
            m == Max(Range(mask.val))
        IN  /\ call.out.shape = mask.shape
            /\ \A i \in DOMAIN mask.val : call.out.val[i] = mask.val[i]
            /\ m < 256 => call.out.dtype = "uint8"
            /\ (256 <= m /\ m < 65536) => call.out.dtype = "uint16"
            /\ m >= 65536 => call.out = mask

C4_Witness ==
    /\ Applied("compact_mask")
    /\ Max(Range(call.args[1].val)) = 256
    /\ call.out.dtype = "uint16"
    /\ 255 \in Range(call.out.val)

\* C5: _get_cyto returns at each pixel the cell label where the cell mask is
\* non-zero and the nucleus mask is zero, and 0 elsewhere: no nucleus pixel
\* is non-zero in the result and no label value is changed.
C5_GetCyto ==
    Applied("get_cyto") =>
        LET n == call.args[1]
            c == call.args[2]
        IN  /\ call.out.shape = c.shape
            /\ \A i \in DOMAIN c.val :
                  /\ call.out.val[i] =
                        IF c.val[i] # 0 /\ n.val[i] = 0 THEN c.val[i] ELSE 0
                  /\ n.val[i] # 0 => call.out.val[i] = 0
                  /\ call.out.val[i] \in {0, c.val[i]}

C5_Witness ==
    /\ Applied("get_cyto")
    /\ \E i, j \in DOMAIN call.out.val :
          /\ call.args[1].val[i] # 0 /\ call.args[2].val[i] # 0
          /\ call.out.val[i] = 0
          /\ call.args[1].val[j] = 0 /\ call.out.val[j] = 2

\* C6: _get_cyto is idempotent in its cell argument:
\* _get_cyto(n, _get_cyto(n, c)) = _get_cyto(n, c).
C6_GetCytoIdempotent ==
    Applied("get_cyto") => get_cyto(call.args[1], call.out) = call.out

C6_Witness ==
    /\ Applied("get_cyto")
    /\ call.out # call.args[2]
    /\ \E j \in DOMAIN call.out.val : call.out.val[j] # 0

\* C7: filter_segmentation removes every pixel of every object (label) of at
\* most 10 pixels and of every object with a pixel in the border strip,
\* keeps every other object with its pixels and label, and leaves
\* background pixels 0.
C7_FilterSegmentation ==
    Applied("filter_segmentation") =>
        LET mask == call.args[1]
            pixels(v) == {i \in DOMAIN mask.val : mask.val[i] = v}
            touches(v) == pixels(v) \cap Borders(mask.shape, Ext) # {}
            removed(v) == Cardinality(pixels(v)) <= MinSize \/ touches(v)
        IN  /\ ~IsExc(call.out)
            /\ \A i \in DOMAIN mask.val :
                  call.out.val[i] =
                      IF mask.val[i] = 0 \/ removed(mask.val[i]) THEN 0
                      ELSE mask.val[i]

\* C10: for two tables without NA and with unique join keys, _outer_merge
\* returns exactly the joined rows of the keys present in both tables: none
\* for disjoint key sets, one per input row for equal key sets, and no
\* returned row has an NA.
C10_OuterMergeIsInnerJoin ==
    Applied("outer_merge") =>
        LET df1 == call.args[1]
            df2 == call.args[2]
            on == call.args[3]
            keys1 == {KeyOf(df1.rows[k], on) : k \in 1..Len(df1.rows)}
            keys2 == {KeyOf(df2.rows[k], on) : k \in 1..Len(df2.rows)}
            cols == SeqRange(df1.columns) \cup SeqRange(df2.columns)
            both == {[c \in cols |-> IF c \in DOMAIN x THEN x[c] ELSE y[c]] :
                        <<x, y>> \in {xy \in SeqRange(df1.rows)
                                              \X SeqRange(df2.rows) :
                                         KeyOf(xy[1], on) = KeyOf(xy[2], on)}}
        IN  /\ SeqRange(call.out.rows) = both
            /\ Len(call.out.rows) = Cardinality(keys1 \cap keys2)
            /\ keys1 \cap keys2 = {} => call.out.rows = <<>>
            /\ keys1 = keys2 => Len(call.out.rows) = Len(df1.rows)
            /\ \A k \in 1..Len(call.out.rows) :
                  \A c \in DOMAIN call.out.rows[k] : ~call.out.rows[k][c].na

C10_Witness ==
    /\ Applied("outer_merge")
    /\ Len(call.out.rows) = 1
    /\ Len(call.args[1].rows) = 2
    /\ Len(call.args[2].rows) = 2
    /\ call.args[3] = <<"label", "timepoint">>

\* C11: every column that has an integer dtype in an input of _outer_merge
\* has that input's integer dtype in the result (never float64), also when
\* the join produced unmatched rows, which turned the column to float64
\* before they were dropped.
C11_IntegerDtypesSurvive ==
    Applied("outer_merge") =>
        \A k \in 1..2 :
            LET src == call.args[k]
            IN  \A c \in SeqRange(src.columns) :
                    pandas_is_integer_dtype(src.dtype[c]) =>
                        /\ c \in SeqRange(call.out.columns)
                        /\ call.out.dtype[c] = src.dtype[c]

\* an integer column of the second table went to float64 in the join,
\* unmatched rows were dropped and matched rows remain
C11_Witness ==
    /\ Applied("outer_merge")
    /\ call.args[3] = <<"label">>
    /\ LET merged == pd_merge_outer(call.args[1], call.args[2], call.args[3])
       IN  /\ merged.dtype["Cyto_ID"] = "float64"
           /\ merged.dtype["timepoint"] = "float64"
           /\ Len(call.out.rows) < Len(merged.rows)
    /\ Len(call.out.rows) >= 1
    /\ call.out.dtype["Cyto_ID"] = "int64"

(***************************************************************************)
(* Properties of ImageProperties (checked under SpecProps).                *)
(***************************************************************************)
\* the image object handed to ImageProperties
PropsImage == call.args[1]

\* image_df has been computed
Combined ==
    call.op = "ImageProperties" /\ call.pc \notin {"overlay", "combine", "raised"}

\* the distinct positive labels of a mask at timepoint t
LabelsAt(mask, t) == {mask.val[i] : i \in {j \in DOMAIN mask.val : j[1] = t}} \ {0}

\* the rows of a table with the given timepoint
RowsAt(df, t) == SelectSeq(df.rows, LAMBDA r : r[Timepoint].v = t)

\* the pixels where nucleus l lies on a cell, and the last of them in
\* flatten order
OnCell(image, l) ==
    {i \in DOMAIN image.n_mask.val :
        image.n_mask.val[i] = l /\ image.c_mask.val[i] # 0}

FirstPixel(S) == CHOOSE i \in S : \A j \in S : j = i \/ LexLess(i, j)
LastPixel(S) == CHOOSE i \in S : \A j \in S : j = i \/ LexLess(j, i)

\* C12: for a single-timepoint image whose only channel is DAPI (no cell
\* mask) image_df has exactly one row per distinct positive label of the
\* nucleus mask, none dropped and none duplicated, and has the columns
\* area_nucleus and integrated_int_DAPI.
C12_NucleusOnly ==
    (/\ call.op = "ImageProperties" /\ call.pc # "overlay"
     /\ call.pc # "combine"
     /\ PropsImage.channels = <<DAPI>>
     /\ PropsImage.n_mask.shape[1] = 1) =>
        /\ Combined
        /\ LET df == call.out.image_df
               labels == LabelsAt(PropsImage.n_mask, 0)
           IN  /\ Len(df.rows) = Cardinality(labels)
               /\ {df.rows[k][Label].v : k \in 1..Len(df.rows)} = labels
               /\ Area \o Nucleus \in SeqRange(df.columns)
               /\ IntegratedIntDAPI \in SeqRange(df.columns)

C12_Witness ==
    /\ Combined
    /\ PropsImage.channels = <<DAPI>>
    /\ PropsImage.n_mask.shape[1] = 1
    /\ PropsImage.c_mask = None
    /\ Len(call.out.image_df.rows) = 2

\* the image of the empty-timepoint scenario: two timepoints, a cell mask,
\* nuclei at timepoint 0 and none at timepoint 1
EmptyTimepoint ==
    /\ call.op = "ImageProperties"
    /\ PropsImage.n_mask.shape[1] = 2
    /\ PropsImage.c_mask # None
    /\ LabelsAt(PropsImage.n_mask, 1) = {}

\* C13 (as claimed): in the empty-timepoint scenario the table is produced
\* without error, has no row with timepoint 1 and has N rows with timepoint
\* 0, N the number of nuclei detected at timepoint 0.
C13_EmptyTimepoint ==
    (EmptyTimepoint /\ call.pc \notin {"overlay", "combine"}) =>
        /\ Combined
        /\ RowsAt(call.out.image_df, 1) = <<>>
        /\ Len(RowsAt(call.out.image_df, 0)) =
              Cardinality(LabelsAt(PropsImage.n_mask, 0))

\* the nuclei of timepoint 0 that get a row: the nucleus lies on a cell,
\* and the cell under its last such pixel (in flatten order) has a pixel at
\* timepoint 0 that no nucleus covers
Measured(image) ==
    {l \in LabelsAt(image.n_mask, 0) :
        /\ OnCell(image, l) # {}
        /\ image.c_mask.val[LastPixel(OnCell(image, l))]
              \in LabelsAt(image.cyto_mask, 0)}

\* C13 (amended): in the empty-timepoint scenario the table is produced
\* without error, has no row with timepoint 1, and has exactly one row with
\* timepoint 0 for every nucleus of timepoint 0 that lies on a cell with
\* cytoplasm; a nucleus on no cell, or on a cell that is all nucleus, has
\* no row.
C13_EmptyTimepointLinked ==
    (EmptyTimepoint /\ call.pc \notin {"overlay", "combine"}) =>
        /\ Combined
        /\ RowsAt(call.out.image_df, 1) = <<>>
        /\ LET rows == RowsAt(call.out.image_df, 0)
           IN  /\ Len(rows) = Cardinality(Measured(PropsImage))
               /\ {rows[k][Label].v : k \in 1..Len(rows)} =
                     Measured(PropsImage)

C13_Witness ==
    /\ EmptyTimepoint /\ Combined
    /\ Cardinality(LabelsAt(PropsImage.n_mask, 0)) = 2
    /\ LabelsAt(PropsImage.c_mask, 1) # {}
    /\ Len(RowsAt(call.out.image_df, 0)) = 2

\* C14: whenever DAPI is among the channels, every row of the final table
\* has a column integrated_int_DAPI whose value is the row's
\* intensity_mean_DAPI_nucleus times the row's area_nucleus, with or
\* without a cell mask.
C14_IntegratedIntensity ==
    (Combined /\ DAPI \in SeqRange(PropsImage.channels)) =>
        LET df == call.out.image_df
        IN  /\ IntegratedIntDAPI \in SeqRange(df.columns)
            /\ \A k \in 1..Len(df.rows) :
                  /\ ~df.rows[k][IntegratedIntDAPI].na
                  /\ df.rows[k][IntegratedIntDAPI].v =
                        Times(df.rows[k][IntensityMean \o DAPI \o Nucleus].v,
                              df.rows[k][Area \o Nucleus].v)

C14_Witness ==
    /\ Combined
    /\ PropsImage.channels = <<Tub, DAPI>>
    /\ PropsImage.n_mask.shape[1] = 2
    /\ Len(call.out.image_df.rows) >= 3
    /\ \E k \in 1..Len(call.out.image_df.rows) :
          call.out.image_df.rows[k][IntegratedIntDAPI].v[1] > 0

\* C15: the final table has at most one row per (nucleus label, timepoint)
\* pair, for every combination of masks and every number of channels.
C15_OneRowPerNucleus ==
    Combined =>
        LET df == call.out.image_df
        IN  \A j, k \in 1..Len(df.rows) :
                (/\ df.rows[j][Label].v = df.rows[k][Label].v
                 /\ df.rows[j][Timepoint].v = df.rows[k][Timepoint].v) => j = k

\* a nucleus that lies on two cells has a row, in a table of three channels
C15_Witness ==
    /\ Combined
    /\ Len(PropsImage.channels) = 3
    /\ \E l \in LabelsAt(PropsImage.n_mask, 0) :
          /\ Cardinality({PropsImage.c_mask.val[i] :
                             i \in OnCell(PropsImage, l)}) = 2
          /\ \E k \in 1..Len(call.out.image_df.rows) :
                call.out.image_df.rows[k][Label].v = l

\* _overlay has been computed for an image with a cell mask
Overlaid ==
    /\ call.op = "ImageProperties" /\ call.pc # "overlay"
    /\ PropsImage.c_mask # None

\* the nucleus labels with a pixel on a cell
LinkedLabels(image) ==
    {l \in Range(image.n_mask.val) \ {0} : OnCell(image, l) # {}}

\* the Cyto_ID values the overlay table gives for nucleus label l
CytoIDs(overlay, l) ==
    {overlay.rows[k][CytoID].v :
        k \in {j \in 1..Len(overlay.rows) : overlay.rows[j][Label].v = l}}

\* C18 (as claimed): _overlay_mask maps each nucleus label that shares a
\* pixel with a non-zero cell pixel to exactly one cell label, other nuclei
\* are absent, and for a nucleus on two cells the cell label at its FIRST
\* overlapping pixel in flatten order is kept.
C18_OverlayFirstPixel ==
    Overlaid =>
        LET overlay == call.out.overlay
        IN  /\ {overlay.rows[k][Label].v : k \in 1..Len(overlay.rows)} =
                  LinkedLabels(PropsImage)
            /\ Len(overlay.rows) = Cardinality(LinkedLabels(PropsImage))
            /\ \A l \in LinkedLabels(PropsImage) :
                  CytoIDs(overlay, l) =
                      {PropsImage.c_mask.val[FirstPixel(OnCell(PropsImage, l))]}

\* C18 (amended): the same, but for a nucleus on two cells the cell label
\* at its LAST overlapping pixel in flatten order is kept.
C18_OverlayLastPixel ==
    Overlaid =>
        LET overlay == call.out.overlay
        IN  /\ {overlay.rows[k][Label].v : k \in 1..Len(overlay.rows)} =
                  LinkedLabels(PropsImage)
            /\ Len(overlay.rows) = Cardinality(LinkedLabels(PropsImage))
            /\ \A l \in LinkedLabels(PropsImage) :
                  CytoIDs(overlay, l) =
                      {PropsImage.c_mask.val[LastPixel(OnCell(PropsImage, l))]}

\* nucleus 1 lies on cells 6 and 5, in this order; nucleus 2 on no cell
C18_Witness ==
    /\ Overlaid
    /\ PropsImage.n_mask.shape[1] = 1
    /\ LabelsAt(PropsImage.n_mask, 0) = {1, 2}
    /\ OnCell(PropsImage, 1) # {}
    /\ PropsImage.c_mask.val[FirstPixel(OnCell(PropsImage, 1))] = 6
    /\ CytoIDs(call.out.overlay, 1) = {5}
    /\ CytoIDs(call.out.overlay, 2) = {}

(***************************************************************************)
(* Properties of _get_img_dict, _edit_properties and the model selection   *)
(* (checked under SpecPure).                                               *)
(***************************************************************************)
\* the shape of the raw stack of one channel: (t, z, y, x)
StackShape(array) == SubSeq(array.shape, 1, 4)

\* the corrected image of channel k is raw / field at every (t, y, x), the
\* field read at the index that goes with (t, 0, y, x)
Corrected(out, array, channels, flatfield_dict, k) ==
    LET corrected_img == out.img_dict[channels[k][1]]
        field == flatfield_dict[channels[k][1]]
        stack_shape == StackShape(array)
    IN  /\ corrected_img.shape =
              <<stack_shape[1], stack_shape[3], stack_shape[4]>>
        /\ \A i \in Indices(corrected_img.shape) :
              LET at == <<i[1], 0, i[2], i[3]>>
              IN  corrected_img.val[i] = Quot(array.val[at \o <<channels[k][2]>>],
                                    field.val[Project(at, field.shape)])

OutputName(feature_dict, feature) ==
    IF feature \in DOMAIN feature_dict THEN feature_dict[feature] ELSE feature

\* C17: for every feature list, channel and compartment each measured
\* property other than label is output as {feature}_{channel}_{compartment},
\* except area which is output as area_{compartment}, wherever label and
\* area are placed in the feature list.
C17_ColumnNaming ==
    Applied("edit_properties") =>
        LET channel == call.args[1]
            segment == call.args[2]
            featurelist == call.args[3]
        IN  \A k \in 1..Len(featurelist) :
                featurelist[k] # Label =>
                    OutputName(call.out, featurelist[k]) =
                        IF featurelist[k] = Area THEN Area \o segment
                        ELSE featurelist[k] \o channel \o segment

\* the magnification class of a diameter and of a cell model
DiameterClass(d) == IF d = 100 THEN "40X" ELSE IF d = 25 THEN "20X" ELSE "other"
ModelClass(m) ==
    IF m = "40x_Tub_H2B" THEN "40X" ELSE IF m = "cyto" THEN "20X" ELSE "other"

\* C19: for every cell-line string a case-insensitive substring match on
\* "40X" selects diameter 100 and cell model "40x_Tub_H2B"; otherwise a
\* match on "20X" selects diameter 25 and cell model "cyto"; otherwise the
\* diameter is 10 and the cell model is the MODEL_DICT entry of the cell
\* line, or the U2OS entry when there is none; the two choices always fall
\* in the same magnification class.
C19_ModelSelection ==
    Applied("get_models") =>
        LET cell_line == call.args[1]
            name == upper(remove_spaces(cell_line))
        IN  /\ IF contains(upper(cell_line), <<"4", "0", "X">>)
               THEN /\ call.out.nuc_diameter = 100
                    /\ call.out.model_type = "40x_Tub_H2B"
               ELSE IF contains(upper(cell_line), <<"2", "0", "X">>)
               THEN /\ call.out.nuc_diameter = 25
                    /\ call.out.model_type = "cyto"
               ELSE /\ call.out.nuc_diameter = 10
                    /\ call.out.model_type =
                          IF name \in DOMAIN MODEL_DICT THEN MODEL_DICT[name]
                          ELSE MODEL_DICT[<<"U", "2", "O", "S">>]
            /\ DiameterClass(call.out.nuc_diameter) =
                  ModelClass(call.out.model_type)

(***************************************************************************)
(* Failed segmentation (checked under Spec).                               *)
(***************************************************************************)
\* the DAPI and Tub stacks of the image differ in their number of timepoints
TimeMismatch == "Tub" \in img.channels /\ img.T["DAPI"] # img.T["Tub"]

\* run r called the model and ended without returning
FailedRun(r) ==
    /\ r \in modelRuns
    /\ \A k \in 1..Len(results) : results[k].run # r
    /\ \A p \in Callers : loc[p].run = r => loc[p].pc = "raised"

\* C20: if the DAPI and Tub stacks differ in their number of timepoints
\* (assertion failure) or the model raises an error other than IndexError,
\* Image._segmentation ends without calling upload_masks: the store is as
\* the run found it, and a later run for the same image again finds no
\* stored mask.
C20_FailedSegmentationPersistsNothing ==
    \A p \in Callers :
        LET l == loc[p]
            missed == l.pc \notin {"idle", "lookup"} /\ ~HasStored(l)
        IN  /\ (missed /\ TimeMismatch) =>
                  /\ l.pc \in {"n_seg", "c_begin", "raised"}
                  /\ UploadsOf(l.run) = <<>>
            /\ (missed /\ l.pc = "raised"
                  /\ l.exc \in {"AssertionError", "RuntimeError"}) =>
                  /\ UploadsOf(l.run) = <<>>
                  /\ store = l.children
                  /\ find_child(store, image_name(img.id)) = 0
            /\ (l.pc \notin {"idle", "lookup"} /\ l.run > 1
                  /\ FailedRun(l.run - 1)) => ~HasStored(l)

\* a second run after a failed one finds no stored mask, segments the
\* nuclei again and fails on the assertion as well
C20_Witness ==
    \E p \in Callers :
        /\ loc[p].run = 2
        /\ FailedRun(1)
        /\ TimeMismatch
        /\ loc[p].pc = "raised"
        /\ loc[p].exc = "AssertionError"
        /\ uploads = <<>>

(***************************************************************************)
(* Properties of _get_properties (checked under SpecPure).                 *)
(***************************************************************************)
\* the (timepoint, label) pair of a row
TimeLabel(r) == <<r[Timepoint].v, r[Label].v>>

\* C21: _get_properties returns rows sorted by (timepoint, label); with
\* more than one timepoint each row's timepoint is the index of the mask
\* slice it was measured in, with one timepoint every row has timepoint 0;
\* there is exactly one row per distinct positive label per timepoint.
C21_TimepointAndOrder ==
    Applied("get_properties") =>
        LET mask == SegmentMask(call.args[1], call.args[2])
            T == call.args[1].img_dict[call.args[3]].shape[1]
            df == call.out
        IN  /\ ~IsExc(df)
            /\ \A n \in 1..(Len(df.rows) - 1) :
                  LexLess(TimeLabel(df.rows[n]), TimeLabel(df.rows[n + 1]))
            /\ \A n \in 1..Len(df.rows) :
                  /\ df.rows[n][Timepoint].v \in 0..(T - 1)
                  /\ df.rows[n][Label].v \in
                        LabelsAt(mask, df.rows[n][Timepoint].v)
            /\ \A t \in 0..(T - 1) :
                  \A l \in LabelsAt(mask, t) :
                      \E n \in 1..Len(df.rows) : TimeLabel(df.rows[n]) = <<t, l>>

\* a cell mask of two timepoints whose labels at timepoint 0 (5 and 6) are
\* not those at timepoint 1 (1 and 2)
C21_Witness ==
    /\ Applied("get_properties")
    /\ call.args[2] = CellSeg
    /\ ~IsExc(call.out)
    /\ Len(call.out.rows) = 4
    /\ [n \in 1..4 |-> TimeLabel(call.out.rows[n])] =
          <<<<0, 5>>, <<0, 6>>, <<1, 1>>, <<1, 2>>>>

(***************************************************************************)
(* Quality table and classifier hook (checked under SpecProps).            *)
(***************************************************************************)
\* the values of an array in ascending order
SortedValues(a) ==
    LET tagged == SortKeys({<<a.val[i]>> \o i : i \in DOMAIN a.val})
    IN  [k \in 1..Len(tagged) |-> tagged[k][1]]

\* the statistical median: the middle value, or the mean of the two middle
\* values
Median(a) ==
    LET sorted == SortedValues(a)
        n == Len(sorted)
    IN  IF n % 2 = 1 THEN Quot(sorted[(n + 1) \div 2], 1)
        ELSE Quot(sorted[n \div 2] + sorted[n \div 2 + 1], 2)

\* quality_df has been computed
QualityDone ==
    call.op = "ImageProperties"
    /\ call.pc \notin {"overlay", "combine", "quality", "raised"}

\* the image object of the same channels and corrected stacks whose nucleus
\* mask is empty and that has no cell mask
Unmasked(image) ==
    ImageObject(image.channels,
                StackOf([t \in 1..image.n_mask.shape[1] |->
                            PropFrame(0, {}, 0, {})]),
                None)

\* C22: quality_df has exactly one row per channel of the corrected image
\* dictionary, each row's intensity_median is the median of that channel's
\* whole corrected array, and quality_df is the same whatever the masks
\* are and whatever classifiers are supplied: it is the table of the image
\* without masks, at every step after it is built.
C22_QualityTable ==
    QualityDone =>
        LET q == call.out.quality_df
            channels == DOMAIN PropsImage.img_dict
        IN  /\ Len(q.rows) = Cardinality(channels)
            /\ \A ch \in channels :
                  \E n \in 1..Len(q.rows) :
                      /\ q.rows[n][<<"channel">>].v = ch
                      /\ q.rows[n][<<"intensity", "median">>].v =
                            Median(PropsImage.img_dict[ch])
                      /\ \A m \in 1..Len(q.rows) :
                            q.rows[m][<<"channel">>].v = ch => m = n
            /\ q = concat_quality_df(Unmasked(PropsImage))

\* classifiers were applied to an image of three channels, and the table is
\* that of the constructor before any classifier was visited
C22_Witness ==
    /\ QualityDone
    /\ call.pc = "done"
    /\ PropsImage.channels = <<DAPI, Tub, EdU>>
    /\ Len(call.out.trace) = 4
    /\ Len(call.out.quality_df.rows) = 3
    /\ call.out.quality_df.rows[2][<<"channel">>].v = Tub
    /\ call.out.quality_df.rows[2][<<"intensity", "median">>].v =
          Median(PropsImage.img_dict[Tub])
    /\ call.out.quality_df.rows[1][<<"intensity", "median">>].v =
          Median(PropsImage.img_dict[DAPI])

\* the events of a trace with the given operation
Events(trace, op) == SelectSeq(trace, LAMBDA e : e.op = op)

\* C23: classifiers run only after the measurement table is built and only
\* when a classifier list is supplied and a cell mask exists; they are
\* visited in list order, process_images is called if and only if
\* select_channels returned true, and each applied classifier receives the
\* table produced by the previously applied one; when no cell mask exists
\* or no classifier applies, image_df is as the merge produced it.
C23_ClassifierHook ==
    call.op = "ImageProperties" =>
        LET trace == call.out.trace
            selects == Events(trace, "select_channels")
            processes == Events(trace, "process_images")
            merged == combine_channels(PropsImage, call.out.overlay,
                                       call.args[2])
        IN  /\ trace # <<>> =>
                  /\ QualityDone
                  /\ call.args[3] # None
                  /\ PropsImage.c_mask # None
            /\ trace # <<>> =>
                  /\ Len(selects) <= Len(call.args[3].list)
                  /\ \A k \in 1..Len(selects) :
                        /\ selects[k].cls = call.args[3].list[k].name
                        /\ selects[k].result =
                              select_channels(call.args[3].list[k],
                                              PropsImage.img_dict)
            /\ \A k \in 1..Len(trace) :
                  /\ trace[k].op = "process_images" =>
                        /\ k > 1
                        /\ trace[k - 1].op = "select_channels"
                        /\ trace[k - 1].cls = trace[k].cls
                        /\ trace[k - 1].result
                  /\ (trace[k].op = "select_channels" /\ k < Len(trace)) =>
                        (trace[k].result <=>
                            /\ trace[k + 1].op = "process_images"
                            /\ trace[k + 1].cls = trace[k].cls)
            /\ \A k \in 1..Len(processes) :
                  /\ processes[k].c_mask = PropsImage.c_mask
                  /\ processes[k].image_df =
                        IF k = 1 THEN merged ELSE processes[k - 1].result
            /\ call.pc = "done" =>
                  /\ (call.args[3] # None /\ PropsImage.c_mask # None) =>
                        /\ Len(selects) = Len(call.args[3].list)
                        /\ selects # <<>> =>
                              (trace[Len(trace)].op = "select_channels" =>
                                  ~trace[Len(trace)].result)
                  /\ call.out.image_df =
                        IF processes = <<>> THEN merged
                        ELSE processes[Len(processes)].result

\* two classifiers were visited, the first did not apply and the second did
C23_Witness ==
    /\ call.op = "ImageProperties" /\ call.pc = "done"
    /\ Len(call.out.trace) = 3
    /\ call.out.trace[1].op = "select_channels"
    /\ ~call.out.trace[1].result
    /\ call.out.trace[3].op = "process_images"
    /\ call.out.trace[3].cls = "tub"
    /\ call.out.image_df # call.out.trace[3].image_df

\* C28: in the final table of a multi-timepoint image with a cell mask,
\* every row with nucleus label n, cell id Cyto_ID c and timepoint t is
\* such that nucleus n and cell c share at least one pixel at timepoint t,
\* also when a label value names different objects at different timepoints.
C28_LinkagePerTimepoint ==
    (/\ Combined
     /\ PropsImage.n_mask.shape[1] > 1
     /\ PropsImage.c_mask # None) =>
        LET df == call.out.image_df
        IN  \A k \in 1..Len(df.rows) :
                \E i \in DOMAIN PropsImage.n_mask.val :
                    /\ i[1] = df.rows[k][Timepoint].v
                    /\ PropsImage.n_mask.val[i] = df.rows[k][Label].v
                    /\ PropsImage.c_mask.val[i] = df.rows[k][CytoID].v

(***************************************************************************)
(* _get_cyto on masks that share no pixel (checked under SpecPure).        *)
(***************************************************************************)
\* no pixel is non-zero in both masks
Disjoint(n_mask, c_mask) == Foreground(n_mask) \cap Foreground(c_mask) = {}

\* C24 (as claimed): when no pixel is non-zero in both the nucleus and the
\* cell mask, _get_cyto returns an all-zero mask and raises no error.
C24_DisjointAllZero ==
    (Applied("get_cyto") /\ Disjoint(call.args[1], call.args[2])) =>
        /\ ~IsExc(call.out)
        /\ Foreground(call.out) = {}

\* C24 (amended): when no pixel is non-zero in both the nucleus and the
\* cell mask, _get_cyto raises no error and returns the cell mask
\* unchanged; the result of _get_cyto is all-zero exactly when every
\* non-zero pixel of the cell mask is a non-zero pixel of the nucleus mask.
C24_DisjointKeepsCells ==
    Applied("get_cyto") =>
        /\ ~IsExc(call.out)
        /\ Disjoint(call.args[1], call.args[2]) => call.out = call.args[2]
        /\ Foreground(call.out) = {} <=>
              Foreground(call.args[2]) \subseteq Foreground(call.args[1])

\* a nucleus and a cell that share no pixel
C24_Witness ==
    /\ Applied("get_cyto")
    /\ Disjoint(call.args[1], call.args[2])
    /\ Foreground(call.args[1]) # {}
    /\ Foreground(call.out) # {}

(***************************************************************************)
(* Two concurrent callers (checked under SpecRace).                        *)
(***************************************************************************)
\* the run of caller p found no stored mask at its lookup
Missed(p) ==
    /\ loc[p].lookups = 1
    /\ find_child(loc[p].children, image_name(img.id)) = 0

\* C25: nothing between the mask-existence check and upload_masks looks at
\* the store again: a run that found no stored mask and whose model calls
\* succeeded calls upload_masks exactly once, whatever the other caller has
\* stored in between; so with two concurrent callers both can pass the
\* check before either uploads, both invoke the model and upload_masks is
\* called twice for the image.
C25_NoRecheck ==
    \A p \in Callers :
        (Missed(p) /\ loc[p].pc = "returned") =>
            /\ loc[p].run \in modelRuns
            /\ Len(UploadsOf(loc[p].run)) = 1
            /\ UploadsOf(loc[p].run)[1].image = img.id

\* both callers passed the check before either uploaded, both invoked the
\* model, and the image has two stored mask images
C25_Witness ==
    /\ \A p \in Callers : Missed(p) /\ loc[p].pc = "returned"
    /\ loc["a"].run # loc["b"].run
    /\ {loc["a"].run, loc["b"].run} \subseteq modelRuns
    /\ Len(uploads) = 2
    /\ \A k \in 1..2 : uploads[k].image = img.id
    /\ Cardinality({k \in 1..Len(store) :
                       store[k].name = image_name(img.id)}) = 2

(***************************************************************************)
(* No retries (checked under SpecFaults).                                  *)
(***************************************************************************)
\* the evals of a run for one kind of mask and one timepoint
EvalsAt(l, kind, t) ==
    SelectSeq(l.evals, LAMBDA e : e.kind = kind /\ e.t = t)

\* the run has left the loop of _n_segmentation / of _c_segmentation
NucleusSegmented(l) ==
    l.pc \in {"c_begin", "c_seg", "compact", "upload"}
    \/ (l.pc = "returned" /\ l.evals # <<>>)
CellSegmented(l) ==
    /\ "Tub" \in img.channels
    /\ l.pc \in {"compact", "upload"} \/ (l.pc = "returned" /\ l.evals # <<>>)

\* C26: in a cache-miss run eval is invoked exactly once per timepoint for
\* the nucleus mask and, when 'Tub' is a channel, exactly once per
\* timepoint for the cell mask, also for a timepoint whose eval raised
\* IndexError; the store lookup and upload_masks are each performed at
\* most once per run, and a failure of either ends the run with the
\* exception, without a result.
C26_NoRetries ==
    \A p \in SeqCallers :
        LET l == loc[p]
            T == img.T["DAPI"]
        IN  /\ \A t \in 0..(MaxT - 1) :
                  /\ Len(EvalsAt(l, "n", t)) <= 1
                  /\ Len(EvalsAt(l, "c", t)) <= 1
            /\ NucleusSegmented(l) =>
                  \A t \in 0..(T - 1) : Len(EvalsAt(l, "n", t)) = 1
            /\ CellSegmented(l) =>
                  \A t \in 0..(T - 1) : Len(EvalsAt(l, "c", t)) = 1
            /\ "Tub" \notin img.channels => \A k \in DOMAIN l.evals :
                                               l.evals[k].kind = "n"
            /\ l.lookups <= 1
            /\ l.pc \notin {"idle", "lookup"} => l.lookups = 1
            /\ Len(UploadsOf(l.run)) <= 1
            /\ (l.pc = "returned" /\ l.evals # <<>>) =>
                  Len(UploadsOf(l.run)) = 1
            /\ (l.pc = "raised" /\ l.exc = "ConnectionError") =>
                  /\ \A k \in DOMAIN results : results[k].run # l.run
                  /\ l.evals = <<>> => UploadsOf(l.run) = <<>>

\* a run of two timepoints with a cell channel whose eval raised IndexError
\* at a timepoint has uploaded
C26_Witness ==
    \E p \in SeqCallers :
        /\ loc[p].pc = "returned"
        /\ "Tub" \in img.channels
        /\ img.T["DAPI"] = 2
        /\ Len(loc[p].evals) = 4
        /\ \E k \in DOMAIN loc[p].evals :
              /\ loc[p].evals[k].kind = "n"
              /\ loc[p].evals[k].out = Raise("IndexError")
        /\ Len(UploadsOf(loc[p].run)) = 1
        /\ loc[p].lookups = 1

(***************************************************************************)
(* Compaction and the result triple (checked under Spec).                  *)
(***************************************************************************)
\* C27: when 'Tub' is a channel, no mask is compacted before the other
\* exists (until both are computed the nucleus mask keeps the dtype of the
\* segmentation, uint32), and the nucleus and cell masks that are uploaded
\* and returned have the same dtype, the one of the maximum label over
\* both masks.
C27_JointCompaction ==
    \A p \in SeqCallers :
        LET l == loc[p]
        IN  "Tub" \in img.channels =>
                /\ l.pc \in {"c_begin", "c_seg", "compact"} =>
                      l.n_mask.dtype = "uint32"
                /\ l.pc = "compact" => l.c_mask.dtype = "uint32"
                /\ (l.pc \in {"upload", "returned"} /\ l.evals # <<>>) =>
                      /\ l.n_mask.dtype = l.c_mask.dtype
                      /\ l.n_mask.dtype =
                            CompactDtype(Max(Range(l.n_mask.val)
                                         \cup Range(l.c_mask.val)))
                /\ \A k \in DOMAIN results :
                      results[k].n_mask.dtype = results[k].c_mask.dtype

\* the cell mask alone needs 16 bits, and the nucleus mask has them too
C27_Witness ==
    \E p \in SeqCallers :
        /\ "Tub" \in img.channels
        /\ loc[p].pc = "returned" /\ loc[p].evals # <<>>
        /\ Max(Range(loc[p].n_mask.val)) < 2^8
        /\ Max(Range(loc[p].n_mask.val)) > 0
        /\ Max(Range(loc[p].c_mask.val)) >= 2^8
        /\ loc[p].n_mask.dtype = "uint16"

\* C29: on every path on which _segmentation returns the nucleus mask is
\* not None, and the cell mask and the cytoplasm mask are both present
\* when 'Tub' is a channel and both None when it is not; a cache hit with
\* 'Tub' never returns a nucleus mask without a cell mask.
C29_ResultTriple ==
    /\ \A k \in DOMAIN results :
          /\ results[k].n_mask # None
          /\ "Tub" \in img.channels =>
                results[k].c_mask # None /\ results[k].cyto_mask # None
          /\ "Tub" \notin img.channels =>
                results[k].c_mask = None /\ results[k].cyto_mask = None
    /\ \A p \in SeqCallers :
          loc[p].pc = "returned" =>
              \E k \in DOMAIN results : results[k] = Result(loc[p])

\* a cache hit and a cache miss have returned, with and without 'Tub'
C29_Witness ==
    /\ Len(results) = 2
    /\ results[1].evals > 0 /\ results[2].evals = 0
    /\ "Tub" \in img.channels
    /\ results[2].c_mask # None
    /\ results[2].cyto_mask # results[2].c_mask

(***************************************************************************)
(* Properties of import_measurements (checked under SpecImport).           *)
(***************************************************************************)
\* prepare_for_measurements has returned
Prepared ==
    /\ call.op = "import_measurements"
    /\ call.pc # "prepare"
    /\ ~(call.pc = "raised" /\ call.exc = "Exception")

\* the state has no dataframe, no or an empty condition_id map, or a row
\* whose well is not in the map
InvalidState(state) ==
    \/ state.df = None
    \/ state.condition_id_map = None
    \/ DOMAIN state.condition_id_map.dict = {}
    \/ /\ "well" \in SeqRange(state.df.columns)
       /\ \E k \in 1..Len(state.df.rows) :
             state.df.rows[k]["well"] \notin DOMAIN state.condition_id_map.dict

\* C30: import_measurements calls prepare_for_measurements, then validates,
\* then inserts; if the state has no dataframe, an empty or missing
\* condition_id map, or a row whose well has no entry in the map, it raises
\* MeasurementError and executes no INSERT into the measurements table;
\* when it succeeds the inserted columns are condition_id followed by every
\* dataframe column except well.
C30_AllOrNothing ==
    call.op = "import_measurements" =>
        /\ call.pc \in {"prepare", "validate", "insert"} =>
              call.executed = <<>>
        /\ (Prepared /\ InvalidState(call.prepared)) =>
              /\ call.executed = <<>>
              /\ call.measurements = <<>>
              /\ call.pc \notin {"execute", "done"}
              /\ call.pc = "raised" => call.exc = "MeasurementError"
        /\ call.pc = "raised" => call.measurements = <<>>
        /\ call.pc = "done" =>
              /\ Len(call.executed) = 1
              /\ call.executed[1].table = "measurements"
              /\ call.executed[1].columns =
                    <<"condition_id">> \o
                    SelectSeq(call.prepared.df.columns,
                              LAMBDA col : col # "well")
              /\ Len(call.measurements) = Len(call.prepared.df.rows)

\* one row has a condition_id and the other has none: the import raised and
\* nothing was inserted
C30_Witness ==
    /\ call.op = "import_measurements"
    /\ call.pc = "raised" /\ call.exc = "MeasurementError"
    /\ call.prepared.df # None
    /\ Len(call.prepared.df.rows) = 2
    /\ call.prepared.condition_id_map # None
    /\ DOMAIN call.prepared.condition_id_map.dict = {"A1"}
    /\ call.executed = <<>>
    /\ "condition_id" \in SeqRange(call.state.df.columns)

=============================================================================
